---- MODULE Spec2Model ----
(***************************************************************************)
(* The paper-trading ledger of src/src/paper_trading.py and the bet        *)
(* resolver of src/src/bet_resolver.py as a state machine over the rows    *)
(* of the database (src/src/database.py).                                  *)
(*                                                                         *)
(* Money is held in elevenths of a dollar, so that the profit of a single  *)
(* bet at -110 odds, stake * (100 / 110), is a whole number for every      *)
(* whole-dollar stake; arithmetic is exact (the code's Float columns       *)
(* round at the last bit, which the model does not follow).  Stat values   *)
(* and lines are in the half-point steps of the UI's number inputs.        *)
(* Dates are day numbers.  A value that may be None is None (the empty     *)
(* tuple) or Some(v).                                                      *)
(*                                                                         *)
(* Spec is the single-user, single-threaded use the program is built for:  *)
(* one PaperTradingManager acts at a time and every call runs to           *)
(* completion, so the manager's loaded account is the account row (the     *)
(* session expires its objects on every commit).                           *)
(***************************************************************************)
EXTENDS Integers, Sequences, FiniteSets, TLC

VARIABLES
    accounts,     \* the paper_trading_account table: no row, or default_user's
    single_bets,  \* the single_bets table, row i has id i
    parlay_bets,  \* the parlay_bets table with each row's legs (parlay_legs)
    snapshots,    \* the bankroll_snapshots table, in insertion order
    game_stats,   \* the game_stats table, a set of rows
    today,        \* the day datetime.utcnow() falls on
    resolvable,   \* resolve_all_pending: the items of the batch still to do
    batch,        \* resolve_all_pending: its counters, whether it runs, whether it raised
    resets,       \* the number of reset_account calls so far
    last_call,    \* the last call of the public interface and what it returned
    before,       \* the ledger tables as that call found them
    sessions      \* SpecTwo: the account row in the database and in each session

vars == <<accounts, single_bets, parlay_bets, snapshots, game_stats, today,
          resolvable, batch, resets, last_call, before, sessions>>

None == <<>>
Some(v) == <<v>>
Value(o) == o[1]

\* self.account of a PaperTradingManager: the row of 'default_user'
account == accounts[1]

(***************************************************************************)
(* Bounds of the model.                                                    *)
(***************************************************************************)
MaxBets == 2    \* rows of single_bets plus rows of parlay_bets
MaxResets == 1  \* reset_account calls
MaxDay == 2     \* last day of the clock
MaxGames == 2   \* rows of game_stats
MaxAppBets == 1 \* bets placed in SpecApp

(***************************************************************************)
(* Program constants.                                                      *)
(***************************************************************************)
DefaultBankroll == 1000
Odds == -110

Dollars(d) == d * 11

(***************************************************************************)
(* The players table and the inputs the calls are drawn from.              *)
(***************************************************************************)
PlayerNames == {"P1", "P2"}
UnknownName == "Nobody"
PlayerIdOf(name) == IF name = "P1" THEN 1 ELSE 2
Opponents == {"BOS", "LAL"}
Directions == {"OVER", "UNDER"}
Actuals == 1..3
Stakes == {Dollars(400), Dollars(1000)}
Multipliers == {3}
Dates == 1..MaxDay

(***************************************************************************)
(* What a call leaves behind: the four ledger tables and its return value. *)
(***************************************************************************)
Result(a, s, p, n, r) ==
    [account |-> a, single_bets |-> s, parlay_bets |-> p, snapshots |-> n, ret |-> r]

\* an early return, or the rollback of the except branch: nothing is written
Rejected(r) == Result(account, single_bets, parlay_bets, snapshots, r)

(***************************************************************************)
(* PaperTradingManager._create_snapshot: the row appended for account a.   *)
(* win_rate = (won / resolved) * 100 is kept as the fraction               *)
(* <<won * 100, resolved>>, and <<0, 1>> for the 0 of "no resolved bets".  *)
(***************************************************************************)
WinRate(a) ==
    LET resolved_bets == a.total_bets_won + a.total_bets_lost
    IN  IF resolved_bets > 0 THEN <<a.total_bets_won * 100, resolved_bets>>
        ELSE <<0, 1>>

SnapshotOf(a) ==
    [bankroll     |-> a.current_bankroll,
     total_profit |-> a.current_bankroll - a.starting_bankroll,
     total_bets   |-> a.total_bets_placed,
     win_rate     |-> WinRate(a)]

\* seeded fault for C10: the newest snapshot is overwritten, not appended to
create_snapshot_overwriting(snaps, a) ==
    IF snaps = <<>> THEN <<SnapshotOf(a)>>
    ELSE [snaps EXCEPT ![Len(snaps)] = SnapshotOf(a)]

create_snapshot(snaps, a) == Append(snaps, SnapshotOf(a))

(***************************************************************************)
(* PaperTradingManager._get_or_create_account                              *)
(***************************************************************************)
NewAccount ==
    [starting_bankroll |-> Dollars(DefaultBankroll),
     current_bankroll  |-> Dollars(DefaultBankroll),
     total_bets_placed |-> 0,
     total_bets_won    |-> 0,
     total_bets_lost   |-> 0,
     total_bets_void   |-> 0]

\* seeded fault for C24: every construction writes a snapshot
get_or_create_account_snapshotting ==
    IF accounts = <<>>
    THEN Result(NewAccount, single_bets, parlay_bets,
                create_snapshot(snapshots, NewAccount), None)
    ELSE Result(account, single_bets, parlay_bets,
                create_snapshot(snapshots, account), None)

get_or_create_account ==
    IF accounts = <<>>
    THEN Result(NewAccount, single_bets, parlay_bets,
                create_snapshot(snapshots, NewAccount), None)
    ELSE Rejected(None)

(***************************************************************************)
(* PaperTradingManager.check_sufficient_funds                              *)
(***************************************************************************)
\* seeded fault for C3: the whole bankroll cannot be staked
check_sufficient_funds_strict(stake) == stake < account.current_bankroll

check_sufficient_funds(stake) == ~(stake > account.current_bankroll)

(***************************************************************************)
(* PaperTradingManager.reset_account(new_bankroll)                         *)
(***************************************************************************)
reset_account(new_bankroll) ==
    LET a == [starting_bankroll |-> new_bankroll,
              current_bankroll  |-> new_bankroll,
              total_bets_placed |-> 0,
              total_bets_won    |-> 0,
              total_bets_lost   |-> 0,
              total_bets_void   |-> 0]
    IN  Result(a, single_bets, parlay_bets, create_snapshot(snapshots, a), None)

(***************************************************************************)
(* PaperTradingManager.place_single_bet.  in is the record of arguments.   *)
(***************************************************************************)
ProfitAtOdds(stake) == (stake * 100) \div 110

SingleExpectedValue(probability, stake) ==
    (probability * ProfitAtOdds(stake) - (100 - probability) * stake) \div 100

\* seeded fault for C4: the placement is debited but not counted
AccountAfterPlacementUncounted(stake) ==
    [account EXCEPT !.current_bankroll = @ - stake]

AccountAfterPlacement(stake) ==
    [account EXCEPT !.current_bankroll = @ - stake,
                    !.total_bets_placed = @ + 1]

NewSingleBet(in) ==
    [id               |-> Len(single_bets) + 1,
     player_id        |-> PlayerIdOf(in.player_name),
     player_name      |-> in.player_name,
     stat_type        |-> in.stat_type,
     line             |-> in.line,
     direction        |-> in.direction,
     stake            |-> in.stake,
     odds             |-> Odds,
     potential_payout |-> in.stake + ProfitAtOdds(in.stake),
     prediction       |-> in.prediction,
     probability      |-> in.probability,
     expected_value   |-> SingleExpectedValue(in.probability, in.stake),
     opponent         |-> in.opponent,
     game_date        |-> in.game_date,
     status           |-> "pending",
     actual_result    |-> None,
     profit_loss      |-> 0,
     placed_at        |-> today,
     resolved_at      |-> None]

\* seeded fault for C22: a bet without a game date is refused
place_single_bet_needing_date(in) ==
    IF ~check_sufficient_funds(in.stake) THEN Rejected(None)
    ELSE IF in.player_name \notin PlayerNames \/ in.game_date = None THEN Rejected(None)
    ELSE LET bet == NewSingleBet(in)
             a   == AccountAfterPlacement(in.stake)
         IN  Result(a, Append(single_bets, bet), parlay_bets,
                    create_snapshot(snapshots, a), Some(bet.id))

place_single_bet(in) ==
    IF ~check_sufficient_funds(in.stake) THEN Rejected(None)
    ELSE IF in.player_name \notin PlayerNames THEN Rejected(None)
    ELSE LET bet == NewSingleBet(in)
             a   == AccountAfterPlacement(in.stake)
         IN  Result(a, Append(single_bets, bet), parlay_bets,
                    create_snapshot(snapshots, a), Some(bet.id))

(***************************************************************************)
(* PaperTradingManager.place_parlay_bet.  A parlay row carries its legs    *)
(* (the ParlayBet.legs relationship); leg ids count up over all parlays.   *)
(***************************************************************************)
RECURSIVE SumLen(_)
SumLen(rows) ==
    IF rows = <<>> THEN 0 ELSE Len(Head(rows).legs) + SumLen(Tail(rows))

\* the entries of picks_data that become legs: a pick without player_id whose
\* name is not in the players table is skipped ("continue")
PickHasPlayer(pick) == pick.player_id # None \/ pick.player_name \in PlayerNames

KeptPicks(picks_data) == SelectSeq(picks_data, PickHasPlayer)

\* float(pick_data['prediction']) raises on None, for kept picks only
PickRaises(pick) == pick.prediction = None

NewLeg(pick, leg_id, parlay_id) ==
    [id            |-> leg_id,
     parlay_id     |-> parlay_id,
     player_id     |-> IF pick.player_id # None THEN Value(pick.player_id)
                       ELSE PlayerIdOf(pick.player_name),
     player_name   |-> pick.player_name,
     stat_type     |-> pick.stat_type,
     line          |-> pick.line,
     direction     |-> pick.direction,
     prediction    |-> Value(pick.prediction),
     probability   |-> pick.probability,
     opponent      |-> pick.opponent,
     game_date     |-> pick.game_date,
     status        |-> "pending",
     actual_result |-> None]

NewLegs(picks_data, parlay_id) ==
    LET kept == KeptPicks(picks_data)
        base == SumLen(parlay_bets)
    IN  [i \in 1..Len(kept) |-> NewLeg(kept[i], base + i, parlay_id)]

NewParlayBet(in) ==
    [id                 |-> Len(parlay_bets) + 1,
     stake              |-> in.stake,
     payout_multiplier  |-> in.payout_multiplier,
     potential_payout   |-> in.stake * in.payout_multiplier,
     parlay_probability |-> in.parlay_probability,
     expected_value     |-> in.expected_value,
     num_picks          |-> Len(in.picks_data),
     status             |-> "pending",
     profit_loss        |-> 0,
     placed_at          |-> today,
     resolved_at        |-> None,
     legs               |-> NewLegs(in.picks_data, Len(parlay_bets) + 1)]

place_parlay_bet(in) ==
    IF ~check_sufficient_funds(in.stake) THEN Rejected(None)
    ELSE IF \E i \in 1..Len(KeptPicks(in.picks_data)) :
                PickRaises(KeptPicks(in.picks_data)[i])
    THEN Rejected(None)
    ELSE LET parlay == NewParlayBet(in)
             a      == AccountAfterPlacement(in.stake)
         IN  Result(a, single_bets, Append(parlay_bets, parlay),
                    create_snapshot(snapshots, a), Some(parlay.id))

(***************************************************************************)
(* PaperTradingManager.resolve_single_bet                                  *)
(***************************************************************************)
\* "won" of one bet or leg row against a realized value
DirectionWon(direction, actual, line) ==
    IF direction = "OVER" THEN actual > line ELSE actual < line

\* seeded fault for C5: a push is not told from a loss
SingleOutcomeWithoutPush(bet, actual_result) ==
    IF DirectionWon(bet.direction, actual_result, bet.line) THEN "won" ELSE "lost"

SingleOutcome(bet, actual_result) ==
    IF actual_result = bet.line THEN "void"
    ELSE IF DirectionWon(bet.direction, actual_result, bet.line) THEN "won"
    ELSE "lost"

ResolvedSingle(bet, actual_result) ==
    LET status == SingleOutcome(bet, actual_result)
    IN  [bet EXCEPT !.actual_result = Some(actual_result),
                    !.status = status,
                    !.profit_loss = IF status = "void" THEN 0
                                    ELSE IF status = "won" THEN ProfitAtOdds(bet.stake)
                                    ELSE 0 - bet.stake,
                    !.resolved_at = Some(today)]

\* seeded fault for C6: a win credits the profit without the stake
AccountAfterSingleProfitOnly(bet, status) ==
    IF status = "void"
    THEN [account EXCEPT !.current_bankroll = @ + bet.stake,
                         !.total_bets_void = @ + 1]
    ELSE IF status = "won"
    THEN [account EXCEPT !.current_bankroll = @ + ProfitAtOdds(bet.stake),
                         !.total_bets_won = @ + 1]
    ELSE [account EXCEPT !.total_bets_lost = @ + 1]

AccountAfterSingle(bet, status) ==
    IF status = "void"
    THEN [account EXCEPT !.current_bankroll = @ + bet.stake,
                         !.total_bets_void = @ + 1]
    ELSE IF status = "won"
    THEN [account EXCEPT !.current_bankroll = @ + bet.potential_payout,
                         !.total_bets_won = @ + 1]
    ELSE [account EXCEPT !.total_bets_lost = @ + 1]

\* seeded fault for C2: the status of the bet is not looked at
resolve_single_bet_any_status(bet_id, actual_result) ==
    IF bet_id \notin DOMAIN single_bets THEN Rejected(None)
    ELSE LET bet == ResolvedSingle(single_bets[bet_id], actual_result)
             a   == AccountAfterSingle(single_bets[bet_id], bet.status)
         IN  Result(a, [single_bets EXCEPT ![bet_id] = bet], parlay_bets,
                    create_snapshot(snapshots, a), Some(bet.profit_loss))

resolve_single_bet(bet_id, actual_result) ==
    IF bet_id \notin DOMAIN single_bets THEN Rejected(None)
    ELSE IF single_bets[bet_id].status # "pending" THEN Rejected(None)
    ELSE LET bet == ResolvedSingle(single_bets[bet_id], actual_result)
             a   == AccountAfterSingle(single_bets[bet_id], bet.status)
         IN  Result(a, [single_bets EXCEPT ![bet_id] = bet], parlay_bets,
                    create_snapshot(snapshots, a), Some(bet.profit_loss))

(***************************************************************************)
(* PaperTradingManager.resolve_parlay_bet.  leg_results is a dict: a       *)
(* function from the leg ids it has to the realized values.                *)
(***************************************************************************)
LegOutcome(leg, actual) ==
    IF actual = leg.line THEN "void"
    ELSE IF DirectionWon(leg.direction, actual, leg.line) THEN "won"
    ELSE "lost"

ResolvedLeg(leg, leg_results) ==
    IF leg.id \in DOMAIN leg_results
    THEN LET actual == leg_results[leg.id]
         IN  [leg EXCEPT !.actual_result = Some(actual),
                         !.status = LegOutcome(leg, actual)]
    ELSE leg

\* the flags the loop over parlay.legs ends with
any_void(legs, leg_results) ==
    \E i \in DOMAIN legs :
        /\ legs[i].id \in DOMAIN leg_results
        /\ LegOutcome(legs[i], leg_results[legs[i].id]) = "void"

all_won(legs, leg_results) ==
    ~(\E i \in DOMAIN legs :
        /\ legs[i].id \in DOMAIN leg_results
        /\ LegOutcome(legs[i], leg_results[legs[i].id]) = "lost")

\* seeded fault for C7: a lost leg counts before a pushed one
ParlayOutcomeLossFirst(legs, leg_results) ==
    IF ~all_won(legs, leg_results) THEN "lost"
    ELSE IF any_void(legs, leg_results) THEN "void"
    ELSE "won"

ParlayOutcome(legs, leg_results) ==
    IF any_void(legs, leg_results) THEN "void"
    ELSE IF all_won(legs, leg_results) THEN "won"
    ELSE "lost"

ResolvedParlay(parlay, leg_results) ==
    LET status == ParlayOutcome(parlay.legs, leg_results)
    IN  [parlay EXCEPT !.legs = [i \in DOMAIN parlay.legs |->
                                    ResolvedLeg(parlay.legs[i], leg_results)],
                       !.status = status,
                       !.profit_loss = IF status = "void" THEN 0
                                       ELSE IF status = "won"
                                       THEN parlay.potential_payout - parlay.stake
                                       ELSE 0 - parlay.stake,
                       !.resolved_at = Some(today)]

\* seeded fault for C26: a won parlay is credited its profit only
AccountAfterParlayProfitOnly(parlay, status) ==
    IF status = "void"
    THEN [account EXCEPT !.current_bankroll = @ + parlay.stake,
                         !.total_bets_void = @ + 1]
    ELSE IF status = "won"
    THEN [account EXCEPT !.current_bankroll = @ + parlay.potential_payout - parlay.stake,
                         !.total_bets_won = @ + 1]
    ELSE [account EXCEPT !.total_bets_lost = @ + 1]

AccountAfterParlay(parlay, status) ==
    IF status = "void"
    THEN [account EXCEPT !.current_bankroll = @ + parlay.stake,
                         !.total_bets_void = @ + 1]
    ELSE IF status = "won"
    THEN [account EXCEPT !.current_bankroll = @ + parlay.potential_payout,
                         !.total_bets_won = @ + 1]
    ELSE [account EXCEPT !.total_bets_lost = @ + 1]

resolve_parlay_bet(parlay_id, leg_results) ==
    IF parlay_id \notin DOMAIN parlay_bets THEN Rejected(None)
    ELSE IF parlay_bets[parlay_id].status # "pending" THEN Rejected(None)
    ELSE LET parlay == ResolvedParlay(parlay_bets[parlay_id], leg_results)
             a      == AccountAfterParlay(parlay_bets[parlay_id], parlay.status)
         IN  Result(a, single_bets, [parlay_bets EXCEPT ![parlay_id] = parlay],
                    create_snapshot(snapshots, a), Some(parlay.profit_loss))

(***************************************************************************)
(* PaperTradingManager.void_bet.  Any bet_type but 'single' is a parlay.   *)
(***************************************************************************)
VoidedRow(bet) ==
    [bet EXCEPT !.status = "void", !.profit_loss = 0, !.resolved_at = Some(today)]

\* seeded fault for C9: a void is counted but the stake is not returned
AccountAfterVoidWithoutRefund(refund) ==
    [account EXCEPT !.total_bets_void = @ + 1]

AccountAfterVoid(refund) ==
    [account EXCEPT !.current_bankroll = @ + refund,
                    !.total_bets_void = @ + 1]

\* seeded fault for C1: a bet of any status can be voided
void_bet_any_status(bet_id, bet_type) ==
    LET table == IF bet_type = "single" THEN single_bets ELSE parlay_bets
    IN  IF bet_id \notin DOMAIN table THEN Rejected(FALSE)
        ELSE LET a   == AccountAfterVoid(table[bet_id].stake)
                 new == [table EXCEPT ![bet_id] = VoidedRow(table[bet_id])]
             IN  Result(a,
                        IF bet_type = "single" THEN new ELSE single_bets,
                        IF bet_type = "single" THEN parlay_bets ELSE new,
                        create_snapshot(snapshots, a), TRUE)

void_bet(bet_id, bet_type) ==
    LET table == IF bet_type = "single" THEN single_bets ELSE parlay_bets
    IN  IF bet_id \notin DOMAIN table THEN Rejected(FALSE)
        ELSE IF table[bet_id].status # "pending" THEN Rejected(FALSE)
        ELSE LET a   == AccountAfterVoid(table[bet_id].stake)
                 new == [table EXCEPT ![bet_id] = VoidedRow(table[bet_id])]
             IN  Result(a,
                        IF bet_type = "single" THEN new ELSE single_bets,
                        IF bet_type = "single" THEN parlay_bets ELSE new,
                        create_snapshot(snapshots, a), TRUE)

(***************************************************************************)
(* BetResolver._find_matching_game_stats and _for_leg: the first row, by   *)
(* game_date, of the player's rows that pass the date and opponent         *)
(* filters, or None.  placed_at is the bet's, or the leg's parlay's.       *)
(***************************************************************************)
\* seeded fault for C13: the stored opponent is not looked at
MatchingRowsAnyOpponent(row, placed_at) ==
    {g \in game_stats :
        /\ g.player_id = row.player_id
        /\ IF row.game_date # None THEN g.game_date = Value(row.game_date)
           ELSE g.game_date >= placed_at}

MatchingRows(row, placed_at) ==
    {g \in game_stats :
        /\ g.player_id = row.player_id
        /\ IF row.game_date # None THEN g.game_date = Value(row.game_date)
           ELSE g.game_date >= placed_at
        /\ row.opponent # None => g.opponent = Value(row.opponent)}

FirstByDate(rows) ==
    IF rows = {} THEN None
    ELSE Some(CHOOSE g \in rows : \A h \in rows : g.game_date <= h.game_date)

find_matching_game_stats(bet) == FirstByDate(MatchingRows(bet, bet.placed_at))

find_matching_game_stats_for_leg(leg) ==
    FirstByDate(MatchingRows(leg, parlay_bets[leg.parlay_id].placed_at))

\* getattr(game_stats, stat_type, None)
StatValue(g, stat_type) == IF stat_type = "points" THEN g.points ELSE None

\* game_stats.minutes == 0 or game_stats.minutes is None
\* seeded fault for C12: null minutes are not taken for a game not played
DidNotPlayZeroOnly(g) == g.minutes = Some(0)

DidNotPlay(g) == g.minutes = Some(0) \/ g.minutes = None

(***************************************************************************)
(* BetResolver.check_resolvable_bets: the (id, type) pairs, singles first. *)
(***************************************************************************)
SingleResolvable(i) ==
    /\ single_bets[i].status = "pending"
    /\ find_matching_game_stats(single_bets[i]) # None

ParlayResolvable(i) ==
    /\ parlay_bets[i].status = "pending"
    /\ \A k \in DOMAIN parlay_bets[i].legs :
          find_matching_game_stats_for_leg(parlay_bets[i].legs[k]) # None

IdRows(n, type) == [i \in 1..n |-> [id |-> i, type |-> type]]

SingleItemOk(item) == SingleResolvable(item.id)
ParlayItemOk(item) == ParlayResolvable(item.id)

check_resolvable_bets ==
    SelectSeq(IdRows(Len(single_bets), "single"), SingleItemOk)
        \o SelectSeq(IdRows(Len(parlay_bets), "parlay"), ParlayItemOk)

(***************************************************************************)
(* BetResolver.auto_resolve_single_bet: ret is the call's success flag.    *)
(***************************************************************************)
WithRet(r, v) == [r EXCEPT !.ret = v]

auto_resolve_single_bet(bet_id) ==
    IF bet_id \notin DOMAIN single_bets THEN Rejected(FALSE)
    ELSE IF single_bets[bet_id].status # "pending" THEN Rejected(FALSE)
    ELSE LET bet   == single_bets[bet_id]
             found == find_matching_game_stats(bet)
         IN  IF found = None THEN Rejected(FALSE)
             ELSE IF DidNotPlay(Value(found))
             THEN WithRet(void_bet(bet.id, "single"), TRUE)
             ELSE LET actual_result == StatValue(Value(found), bet.stat_type)
                  IN  IF actual_result = None THEN Rejected(FALSE)
                      ELSE LET r == resolve_single_bet(bet.id, Value(actual_result))
                           IN  WithRet(r, r.ret # None)

(***************************************************************************)
(* BetResolver.auto_resolve_parlay_bet: the loop over the legs from leg i  *)
(* on, with the leg_results collected so far.                              *)
(***************************************************************************)
RECURSIVE AutoParlayFrom(_, _, _)
AutoParlayFrom(parlay, i, leg_results) ==
    IF i > Len(parlay.legs)
    THEN LET r == resolve_parlay_bet(parlay.id, leg_results)
         IN  WithRet(r, r.ret # None)
    ELSE LET leg   == parlay.legs[i]
             found == find_matching_game_stats_for_leg(leg)
         IN  IF found = None THEN Rejected(FALSE)
             ELSE IF DidNotPlay(Value(found))
             THEN WithRet(void_bet(parlay.id, "parlay"), TRUE)
             ELSE LET actual_result == StatValue(Value(found), leg.stat_type)
                  IN  IF actual_result = None THEN Rejected(FALSE)
                      ELSE AutoParlayFrom(parlay, i + 1,
                               leg_results @@ (leg.id :> Value(actual_result)))

auto_resolve_parlay_bet(parlay_id) ==
    IF parlay_id \notin DOMAIN parlay_bets THEN Rejected(FALSE)
    ELSE IF parlay_bets[parlay_id].status # "pending" THEN Rejected(FALSE)
    ELSE AutoParlayFrom(parlay_bets[parlay_id], 1, <<>>)

(***************************************************************************)
(* The arguments the calls are drawn from.                                 *)
(***************************************************************************)
SinglePick(name, line, direction, opponent, game_date) ==
    [player_name |-> name, stat_type |-> "points", line |-> line,
     direction |-> direction,
     prediction |-> IF direction = "OVER" THEN line + 1 ELSE line - 1,
     probability |-> 60,
     opponent |-> opponent, game_date |-> game_date]

SinglePicks ==
    { SinglePick("P1", 2, "OVER", None, None),
      SinglePick("P2", 2, "UNDER", Some("BOS"), Some(2)),
      SinglePick(UnknownName, 2, "OVER", None, None) }

SingleArgs == {[pick |-> p, stake |-> s] : p \in SinglePicks, s \in Stakes}

SingleInput(a) ==
    [player_name |-> a.pick.player_name, stat_type |-> a.pick.stat_type,
     line |-> a.pick.line, direction |-> a.pick.direction, stake |-> a.stake,
     prediction |-> a.pick.prediction, probability |-> a.pick.probability,
     opponent |-> a.pick.opponent, game_date |-> a.pick.game_date]

ParlayPick(player_id, name, line, direction, prediction, opponent, game_date) ==
    [player_id |-> player_id, player_name |-> name, stat_type |-> "points",
     line |-> line, direction |-> direction, prediction |-> prediction,
     probability |-> 60, opponent |-> opponent, game_date |-> game_date]

PickOver == ParlayPick(Some(1), "P1", 2, "OVER", Some(3), None, None)
PickUnder == ParlayPick(None, "P2", 2, "UNDER", Some(1), Some("BOS"), Some(2))
PickUnknown == ParlayPick(None, UnknownName, 2, "OVER", Some(3), None, None)
PickUnset == ParlayPick(Some(2), "P2", 2, "UNDER", None, None, None)

\* the picks_data lists: no pick, one pick, two picks, a pick whose player is
\* unknown, a pick whose prediction is unset
PicksData ==
    { <<>>,
      <<PickOver>>,
      <<PickOver, PickUnder>>,
      <<PickUnknown, PickUnder>>,
      <<PickOver, PickUnset>> }

ParlayArgs ==
    [picks_data : PicksData, stake : Stakes, payout_multiplier : Multipliers,
     parlay_probability : {30}, expected_value : {Dollars(10)}]

\* the dicts a caller can pass for a parlay: realized values for some of its legs
LegIdsOf(parlay_id) ==
    IF parlay_id \in DOMAIN parlay_bets
    THEN {parlay_bets[parlay_id].legs[i].id : i \in DOMAIN parlay_bets[parlay_id].legs}
    ELSE {}

LegResults(parlay_id) ==
    UNION {[ids -> Actuals] : ids \in SUBSET LegIdsOf(parlay_id)}

BetIds == 1..(MaxBets + 1)

\* the rows the data collector can store: one per player and game_date
GameRow(player_id, game_date, opponent, minutes, points) ==
    [player_id |-> player_id, game_date |-> game_date, opponent |-> opponent,
     minutes |-> minutes, points |-> points]

GameRows ==
    { GameRow(1, 1, "BOS", Some(30), Some(3)),
      GameRow(1, 2, "LAL", Some(0), Some(1)),
      GameRow(2, 2, "BOS", None, None),
      GameRow(2, 2, "BOS", Some(30), Some(1)),
      GameRow(1, 2, "LAL", Some(30), None),
      GameRow(2, 2, "LAL", Some(30), Some(1)),
      GameRow(2, 1, "BOS", Some(30), Some(1)) }

\* SpecTwo: the two managers of render_paper_trading_mode, its own and the
\* one of its BetResolver
Managers == {"ui", "resolver"}

(***************************************************************************)
(* The state machine.                                                      *)
(***************************************************************************)
\* last_call: the call, the arguments it read before it returned, its result
Call(op, args, ret) == [op |-> op, args |-> args, ret |-> ret]

Idle == ~batch.active /\ accounts # <<>>

Ledger ==
    [accounts |-> accounts, single_bets |-> single_bets,
     parlay_bets |-> parlay_bets, snapshots |-> snapshots]

\* the call op(args) ran to completion with outcome r
Commit(op, args, r) ==
    /\ accounts' = <<r.account>>
    /\ single_bets' = r.single_bets
    /\ parlay_bets' = r.parlay_bets
    /\ snapshots' = r.snapshots
    /\ last_call' = Call(op, args, r.ret)
    /\ before' = Ledger

\* no PaperTradingManager has been constructed
NoSessions ==
    [stored |-> <<>>, loaded |-> [m \in Managers |-> None], serial |-> <<>>]

Init ==
    /\ accounts = <<>>
    /\ single_bets = <<>>
    /\ parlay_bets = <<>>
    /\ snapshots = <<>>
    /\ game_stats = {}
    /\ today = 1
    /\ resolvable = <<>>
    /\ batch = [active |-> FALSE, num_resolved |-> 0, num_failed |-> 0, attempted |-> 0,
                raised |-> FALSE]
    /\ resets = 0
    /\ last_call = Call("none", <<>>, None)
    /\ before = [accounts |-> <<>>, single_bets |-> <<>>, parlay_bets |-> <<>>,
                 snapshots |-> <<>>]
    /\ sessions = NoSessions

\* PaperTradingManager() for 'default_user'
NewManager ==
    /\ ~batch.active
    /\ Commit("PaperTradingManager", <<>>, get_or_create_account)
    /\ UNCHANGED <<sessions, game_stats, today, resolvable, batch, resets>>

ResetAccount ==
    /\ Idle
    /\ resets < MaxResets
    /\ resets' = resets + 1
    /\ Commit("reset_account", <<>>, reset_account(Dollars(DefaultBankroll)))
    /\ UNCHANGED <<sessions, game_stats, today, resolvable, batch>>

PlaceSingle(args, max) ==
    /\ Idle
    /\ Len(single_bets) + Len(parlay_bets) < max
    /\ \E a \in args :
          LET r == place_single_bet(SingleInput(a))
          IN  Commit("place_single_bet",
                     IF check_sufficient_funds(a.stake) THEN SingleInput(a)
                     ELSE [stake |-> a.stake],
                     r)
    /\ UNCHANGED <<sessions, game_stats, today, resolvable, batch, resets>>

PlaceSingleBet == PlaceSingle(SingleArgs, MaxBets)

PlaceParlay(args, max) ==
    /\ Idle
    /\ Len(single_bets) + Len(parlay_bets) < max
    /\ \E a \in args :
          LET r == place_parlay_bet(a)
          IN  Commit("place_parlay_bet",
                     IF check_sufficient_funds(a.stake) THEN a
                     ELSE [stake |-> a.stake],
                     r)
    /\ UNCHANGED <<sessions, game_stats, today, resolvable, batch, resets>>

PlaceParlayBet == PlaceParlay(ParlayArgs, MaxBets)

\* BetResolver.manual_resolve_single_bet and PaperTradingManager.resolve_single_bet
ResolveSingleBet ==
    /\ Idle
    /\ \E bet_id \in BetIds, actual_result \in Actuals :
          LET r == resolve_single_bet(bet_id, actual_result)
          IN  Commit("resolve_single_bet",
                     IF r.ret = None THEN [bet_id |-> bet_id]
                     ELSE [bet_id |-> bet_id, actual_result |-> actual_result],
                     r)
    /\ UNCHANGED <<sessions, game_stats, today, resolvable, batch, resets>>

\* BetResolver.manual_resolve_parlay_bet and PaperTradingManager.resolve_parlay_bet
ResolveParlayBet ==
    /\ Idle
    /\ \E parlay_id \in BetIds :
          \E leg_results \in LegResults(parlay_id) :
             LET r == resolve_parlay_bet(parlay_id, leg_results)
             IN  Commit("resolve_parlay_bet",
                        IF r.ret = None THEN [bet_id |-> parlay_id]
                        ELSE [bet_id |-> parlay_id, leg_results |-> leg_results],
                        r)
    /\ UNCHANGED <<sessions, game_stats, today, resolvable, batch, resets>>

\* BetResolver.void_bet and PaperTradingManager.void_bet
VoidBet ==
    /\ Idle
    /\ \E bet_id \in BetIds, bet_type \in {"single", "parlay"} :
          LET r == void_bet(bet_id, bet_type)
          IN  Commit("void_bet", [bet_id |-> bet_id, bet_type |-> bet_type], r)
    /\ UNCHANGED <<sessions, game_stats, today, resolvable, batch, resets>>

\* BetResolver.resolve_all_pending up to its loop
ResolveAllBegin ==
    /\ Idle
    /\ resolvable' = check_resolvable_bets
    /\ batch' = [active |-> TRUE, num_resolved |-> 0, num_failed |-> 0, attempted |-> 0,
                 raised |-> FALSE]
    /\ UNCHANGED <<sessions, accounts, single_bets, parlay_bets, snapshots, game_stats, today,
                   resets, last_call, before>>

\* one iteration of the loop of resolve_all_pending
ResolveAllStep ==
    /\ batch.active
    /\ resolvable # <<>>
    /\ LET item == Head(resolvable)
           r    == IF item.type = "single" THEN auto_resolve_single_bet(item.id)
                   ELSE auto_resolve_parlay_bet(item.id)
       IN  /\ Commit(IF item.type = "single" THEN "auto_resolve_single_bet"
                      ELSE "auto_resolve_parlay_bet",
                      [bet_id |-> item.id], r)
           /\ batch' = [batch EXCEPT
                           !.num_resolved = IF r.ret THEN @ + 1 ELSE @,
                           !.num_failed = IF r.ret THEN @ ELSE @ + 1,
                           !.attempted = @ + 1]
    /\ resolvable' = Tail(resolvable)
    /\ UNCHANGED <<sessions, game_stats, today, resets>>

\* the return of resolve_all_pending
ResolveAllEnd ==
    /\ batch.active
    /\ resolvable = <<>>
    /\ batch' = [batch EXCEPT !.active = FALSE]
    /\ UNCHANGED <<sessions, accounts, single_bets, parlay_bets, snapshots, game_stats, today,
                   resolvable, resets, last_call, before>>

\* NBADataCollector.fetch_player_game_stats stores the row of a game played
StoreGameStats ==
    /\ ~batch.active
    /\ Cardinality(game_stats) < MaxGames
    /\ \E g \in GameRows :
          /\ g.game_date <= today
          /\ ~(\E h \in game_stats :
                  h.player_id = g.player_id /\ h.game_date = g.game_date)
          /\ game_stats' = game_stats \cup {g}
    /\ UNCHANGED <<sessions, accounts, single_bets, parlay_bets, snapshots, today, resolvable,
                   batch, resets, last_call, before>>

\* a day passes
Tick ==
    /\ ~batch.active
    /\ today < MaxDay
    /\ today' = today + 1
    /\ UNCHANGED <<sessions, accounts, single_bets, parlay_bets, snapshots, game_stats,
                   resolvable, batch, resets, last_call, before>>

(***************************************************************************)
(* Spec: the ledger under every sequence of calls of its interface, each   *)
(* with every argument of the sets above.                                  *)
(***************************************************************************)
Next ==
    \/ NewManager
    \/ PlaceSingleBet
    \/ PlaceParlayBet
    \/ ResolveSingleBet
    \/ ResolveParlayBet
    \/ VoidBet

Spec == Init /\ [][Next]_vars

(***************************************************************************)
(* SpecApp: the application as the UI drives it: the ledger calls, the     *)
(* reset button, the data collector storing games as the days pass and     *)
(* the resolver's batch.  Bets are placed with one stake, on picks whose   *)
(* player is known.                                                        *)
(***************************************************************************)
AppSingleArgs ==
    {a \in SingleArgs : a.stake = Dollars(400) /\ a.pick.player_name \in PlayerNames}

AppParlayArgs ==
    {a \in ParlayArgs : a.stake = Dollars(400)
                         /\ a.picks_data \in {<<>>, <<PickOver, PickUnder>>}}

PlaceSingleBetApp == PlaceSingle(AppSingleArgs, MaxAppBets)

PlaceParlayBetApp == PlaceParlay(AppParlayArgs, MaxAppBets)

NextApp ==
    \/ NewManager
    \/ ResetAccount
    \/ PlaceSingleBetApp
    \/ PlaceParlayBetApp
    \/ ResolveSingleBet
    \/ ResolveParlayBet
    \/ VoidBet
    \/ ResolveAllBegin
    \/ ResolveAllStep
    \/ ResolveAllEnd
    \/ StoreGameStats
    \/ Tick

SpecApp == Init /\ [][NextApp]_vars

(***************************************************************************)
(* What the claims speak of: the last call, the ledger it found (before)   *)
(* and the ledger it left.                                                 *)
(***************************************************************************)
AccountBefore == before.accounts[1]

Terminal == {"won", "lost", "void"}

Called(op) == last_call.op = op

\* the last call placed a bet / resolved or voided a pending bet
Placed(op) == Called(op) /\ last_call.ret # None
Resolved(op) == Called(op) /\ last_call.ret # None
Voided(bet_type) ==
    Called("void_bet") /\ last_call.ret = TRUE /\ last_call.args.bet_type = bet_type

\* the table a resolve or void call looks its bet up in, as the call found it
TargetTable ==
    IF Called("resolve_single_bet") THEN before.single_bets
    ELSE IF Called("resolve_parlay_bet") THEN before.parlay_bets
    ELSE IF last_call.args.bet_type = "single" THEN before.single_bets
    ELSE before.parlay_bets

TargetNotPending ==
    \/ last_call.args.bet_id \notin DOMAIN TargetTable
    \/ TargetTable[last_call.args.bet_id].status # "pending"

SameCounters(a, b, fields) == \A f \in fields : a[f] = b[f]

Counters == {"total_bets_placed", "total_bets_won", "total_bets_lost", "total_bets_void"}

(***************************************************************************)
(* C1.  Every single bet and every parlay is created pending; a pending    *)
(* row stays pending or moves to won, lost or void; a row that is won,     *)
(* lost or void keeps its status, profit_loss and actual_result over every *)
(* later call (resolve, void, auto-resolution, reset); rows are never      *)
(* deleted.  Stated over each call's before and after, under SpecApp.      *)
(***************************************************************************)
RowKept(old, new, fields) ==
    /\ old.status \in Terminal => SameCounters(old, new, fields)
    /\ old.status = "pending" => new.status \in {"pending"} \cup Terminal
    /\ old.status \in {"pending"} \cup Terminal

TableKept(old, new, fields) ==
    /\ Len(old) <= Len(new)
    /\ \A i \in DOMAIN new :
          IF i \in DOMAIN old THEN RowKept(old[i], new[i], fields)
          ELSE new[i].status = "pending"

C1_ResolutionIsTerminal ==
    /\ TableKept(before.single_bets, single_bets,
                 {"status", "profit_loss", "actual_result"})
    /\ TableKept(before.parlay_bets, parlay_bets, {"status", "profit_loss"})

\* a resolution or void was attempted on a bet already won, lost or void,
\* after a reset of the account
C1_Witness ==
    /\ resets > 0
    /\ last_call.op \in {"resolve_single_bet", "resolve_parlay_bet", "void_bet"}
    /\ last_call.args.bet_id \in DOMAIN TargetTable
    /\ TargetTable[last_call.args.bet_id].status \in Terminal

(***************************************************************************)
(* C2.  resolve_single_bet, resolve_parlay_bet and void_bet on a bet that  *)
(* is not pending or on an unknown id return None (False for void_bet)     *)
(* and leave the account row, the bet rows and the snapshots unchanged.    *)
(***************************************************************************)
C2_RejectedResolveChangesNothing ==
    (last_call.op \in {"resolve_single_bet", "resolve_parlay_bet", "void_bet"}
        /\ TargetNotPending)
    => /\ IF Called("void_bet") THEN last_call.ret = FALSE ELSE last_call.ret = None
       /\ Ledger = before

\* a second resolve of a single bet that is already won
C2_Witness ==
    /\ Called("resolve_single_bet")
    /\ last_call.args.bet_id \in DOMAIN before.single_bets
    /\ before.single_bets[last_call.args.bet_id].status = "won"
    /\ last_call.ret = None

(***************************************************************************)
(* C3.  A placement whose stake exceeds the bankroll returns None and      *)
(* changes nothing; a stake equal to the bankroll passes the funds check   *)
(* (the call goes on to read its other arguments) and the bet is placed,   *)
(* for a single bet whose player is known and for a parlay none of whose   *)
(* kept picks has an unset prediction.                                     *)
(***************************************************************************)
PlacementCall == Called("place_single_bet") \/ Called("place_parlay_bet")

OtherwiseValid ==
    IF Called("place_single_bet") THEN last_call.args.player_name \in PlayerNames
    ELSE \A i \in DOMAIN last_call.args.picks_data :
            PickHasPlayer(last_call.args.picks_data[i])
                => last_call.args.picks_data[i].prediction # None

C3_InsufficientFundsRejected ==
    PlacementCall =>
        /\ last_call.args.stake > AccountBefore.current_bankroll
              => last_call.ret = None /\ Ledger = before
        /\ last_call.args.stake = AccountBefore.current_bankroll
              => /\ DOMAIN last_call.args # {"stake"}
                 /\ OtherwiseValid
                       => /\ last_call.ret # None
                          /\ account.current_bankroll = 0
                          /\ Len(single_bets) + Len(parlay_bets)
                                = Len(before.single_bets) + Len(before.parlay_bets) + 1

\* the whole bankroll was staked on one bet, and the next placement, with a
\* stake above the empty bankroll, was rejected
C3_Witness ==
    /\ PlacementCall
    /\ last_call.args.stake > AccountBefore.current_bankroll
    /\ last_call.ret = None
    /\ AccountBefore.current_bankroll = 0
    /\ AccountBefore.total_bets_placed = 1

(***************************************************************************)
(* C4.  A successful place_single_bet or place_parlay_bet with stake s     *)
(* appends exactly one row, pending and holding the given fields, takes    *)
(* exactly s off current_bankroll, adds exactly 1 to total_bets_placed,    *)
(* and leaves the other counters and every other bet as they were.         *)
(***************************************************************************)
Front(rows) == SubSeq(rows, 1, Len(rows) - 1)

Last(rows) == rows[Len(rows)]

PlacementDebited ==
    /\ account.current_bankroll
          = AccountBefore.current_bankroll - last_call.args.stake
    /\ account.total_bets_placed = AccountBefore.total_bets_placed + 1
    /\ SameCounters(account, AccountBefore,
                    {"starting_bankroll", "total_bets_won", "total_bets_lost",
                     "total_bets_void"})

SingleStored(bet, in) ==
    /\ bet.status = "pending" /\ bet.profit_loss = 0 /\ bet.actual_result = None
    /\ SameCounters(bet, in, {"player_name", "stat_type", "line", "direction",
                              "stake", "prediction", "probability", "opponent",
                              "game_date"})
    /\ bet.odds = -110
    /\ bet.potential_payout = in.stake + (in.stake * 100) \div 110

LegStored(leg, pick) ==
    /\ leg.status = "pending" /\ leg.actual_result = None
    /\ SameCounters(leg, pick, {"player_name", "stat_type", "line", "direction",
                                "probability", "opponent", "game_date"})
    /\ Some(leg.prediction) = pick.prediction

ParlayStored(parlay, in) ==
    /\ parlay.status = "pending" /\ parlay.profit_loss = 0
    /\ SameCounters(parlay, in, {"stake", "payout_multiplier",
                                 "parlay_probability", "expected_value"})
    /\ parlay.potential_payout = in.stake * in.payout_multiplier
    /\ \A i \in DOMAIN parlay.legs :
          \E k \in DOMAIN in.picks_data : LegStored(parlay.legs[i], in.picks_data[k])

SingleTarget == before.single_bets[last_call.args.bet_id]

SingleResolvedRow == single_bets[last_call.args.bet_id]

ResolveSingleOnPending ==
    /\ Called("resolve_single_bet")
    /\ last_call.args.bet_id \in DOMAIN before.single_bets
    /\ SingleTarget.status = "pending"

C5_SingleOutcome ==
    ResolveSingleOnPending =>
        /\ last_call.ret # None
        /\ LET a   == last_call.args.actual_result
               L   == SingleTarget.line
               dir == SingleTarget.direction
               wins == (dir = "OVER" /\ a > L) \/ (dir = "UNDER" /\ a < L)
               st  == SingleResolvedRow.status
           IN  /\ st = "void" <=> a = L
               /\ st = "won" <=> (a # L /\ wins)
               /\ st = "lost" <=> (a # L /\ ~wins)
               /\ st \in Terminal
               /\ SingleResolvedRow.actual_result = Some(a)

\* an UNDER bet resolved against a value above its line: lost
C5_Witness ==
    /\ ResolveSingleOnPending
    /\ SingleTarget.direction = "UNDER"
    /\ last_call.args.actual_result > SingleTarget.line
    /\ SingleResolvedRow.status = "lost"

(***************************************************************************)
(* C6.  resolve_single_bet on a pending bet of stake s: won adds the       *)
(* stored potential_payout s + s*100/110 to the bankroll, profit_loss is   *)
(* s*100/110, total_bets_won + 1; lost leaves the bankroll, profit_loss is *)
(* -s, total_bets_lost + 1; void adds s, profit_loss 0, total_bets_void    *)
(* + 1.  No other counter changes.                                         *)
(***************************************************************************)
OnlyCounter(field) ==
    /\ account[field] = AccountBefore[field] + 1
    /\ SameCounters(account, AccountBefore, (Counters \ {field}) \cup {"starting_bankroll"})

C6_SingleSettlement ==
    ResolveSingleOnPending =>
        LET s  == SingleTarget.stake
            st == SingleResolvedRow.status
            pl == SingleResolvedRow.profit_loss
            credited == account.current_bankroll - AccountBefore.current_bankroll
        IN  /\ SingleTarget.potential_payout = s + (s * 100) \div 110
            /\ st = "won" => /\ credited = SingleTarget.potential_payout
                             /\ pl = (s * 100) \div 110
                             /\ OnlyCounter("total_bets_won")
            /\ st = "lost" => /\ credited = 0
                              /\ pl = 0 - s
                              /\ OnlyCounter("total_bets_lost")
            /\ st = "void" => /\ credited = s
                              /\ pl = 0
                              /\ OnlyCounter("total_bets_void")
            /\ last_call.ret = Some(pl)

\* a bet of 400 dollars was won: 400 + 400*100/110 dollars came back
C6_Witness ==
    /\ ResolveSingleOnPending
    /\ SingleResolvedRow.status = "won"
    /\ SingleTarget.stake = Dollars(400)
    /\ account.current_bankroll = AccountBefore.current_bankroll + Dollars(400) + 4000

(***************************************************************************)
(* C7.  resolve_parlay_bet on a pending parlay: when the realized value of *)
(* any leg equals that leg's line the parlay becomes void, its stake is    *)
(* returned to the bankroll, profit_loss is 0 and total_bets_void + 1,     *)
(* whatever the other legs did.                                            *)
(***************************************************************************)
ParlayTarget == before.parlay_bets[last_call.args.bet_id]

ParlayResolvedRow == parlay_bets[last_call.args.bet_id]

ResolveParlayOnPending ==
    /\ Called("resolve_parlay_bet")
    /\ last_call.args.bet_id \in DOMAIN before.parlay_bets
    /\ ParlayTarget.status = "pending"
    /\ last_call.ret # None

HasResult(leg) == leg.id \in DOMAIN last_call.args.leg_results

LegPushed(leg) == HasResult(leg) /\ last_call.args.leg_results[leg.id] = leg.line

LegWins(leg) ==
    /\ HasResult(leg)
    /\ \/ leg.direction = "OVER" /\ last_call.args.leg_results[leg.id] > leg.line
       \/ leg.direction = "UNDER" /\ last_call.args.leg_results[leg.id] < leg.line

LegsOf(parlay) == {parlay.legs[i] : i \in DOMAIN parlay.legs}

C7_ParlayPushVoids ==
    (ResolveParlayOnPending /\ \E leg \in LegsOf(ParlayTarget) : LegPushed(leg))
    => /\ ParlayResolvedRow.status = "void"
       /\ ParlayResolvedRow.profit_loss = 0
       /\ account.current_bankroll
             = AccountBefore.current_bankroll + ParlayTarget.stake
       /\ OnlyCounter("total_bets_void")

\* one leg pushed while another leg lost
C7_Witness ==
    /\ ResolveParlayOnPending
    /\ \E leg \in LegsOf(ParlayTarget) : LegPushed(leg)
    /\ \E leg \in LegsOf(ParlayTarget) : HasResult(leg) /\ ~LegPushed(leg) /\ ~LegWins(leg)
    /\ ParlayResolvedRow.status = "void"

(***************************************************************************)
(* C8.  resolve_parlay_bet marks a parlay won, crediting potential_payout, *)
(* only if the parlay has legs and every leg has a realized value in       *)
(* leg_results that wins for the leg's direction; when no leg pushed and   *)
(* some leg did not win, the parlay is lost and nothing is credited.       *)
(***************************************************************************)
C8_ParlayWonOnlyIfEveryLegWon ==
    ResolveParlayOnPending =>
        LET legs == LegsOf(ParlayTarget)
        IN  /\ ParlayResolvedRow.status = "won"
                  => legs # {} /\ \A leg \in legs : LegWins(leg)
            /\ ((\A leg \in legs : ~LegPushed(leg)) /\ (\E leg \in legs : ~LegWins(leg)))
                  => /\ ParlayResolvedRow.status = "lost"
                     /\ account.current_bankroll = AccountBefore.current_bankroll

(***************************************************************************)
(* C9.  void_bet on a pending single bet or parlay succeeds, adds exactly  *)
(* the bet's stake to the bankroll, sets the bet void with profit_loss 0,  *)
(* adds 1 to total_bets_void and leaves the other counters.                *)
(***************************************************************************)
VoidOnPending ==
    /\ Called("void_bet")
    /\ last_call.args.bet_id \in DOMAIN TargetTable
    /\ TargetTable[last_call.args.bet_id].status = "pending"

VoidedTable ==
    IF last_call.args.bet_type = "single" THEN single_bets ELSE parlay_bets

C9_VoidRefundsStake ==
    VoidOnPending =>
        /\ last_call.ret = TRUE
        /\ VoidedTable[last_call.args.bet_id].status = "void"
        /\ VoidedTable[last_call.args.bet_id].profit_loss = 0
        /\ account.current_bankroll
              = AccountBefore.current_bankroll + TargetTable[last_call.args.bet_id].stake
        /\ OnlyCounter("total_bets_void")

\* a pending parlay was voided and its 400 dollars came back
C9_Witness ==
    /\ VoidOnPending
    /\ last_call.args.bet_type = "parlay"
    /\ parlay_bets[last_call.args.bet_id].status = "void"
    /\ account.current_bankroll = AccountBefore.current_bankroll + Dollars(400)

(***************************************************************************)
(* C10.  Every successful placement, resolution (manual or automatic) and  *)
(* void appends exactly one snapshot holding the account's values after    *)
(* the operation: bankroll, total_profit = current - starting, total_bets  *)
(* = placed count, win_rate = won / (won + lost) * 100 and 0 when none;    *)
(* no call changes or removes a snapshot that exists.  Under SpecApp.      *)
(***************************************************************************)
Succeeded ==
    CASE last_call.op \in {"place_single_bet", "place_parlay_bet",
                           "resolve_single_bet", "resolve_parlay_bet"}
            -> last_call.ret # None
      [] last_call.op \in {"void_bet", "auto_resolve_single_bet",
                           "auto_resolve_parlay_bet"}
            -> last_call.ret = TRUE
      [] OTHER -> FALSE

SnapshotHoldsAccount(snap) ==
    /\ snap.bankroll = account.current_bankroll
    /\ snap.total_profit = account.current_bankroll - account.starting_bankroll
    /\ snap.total_bets = account.total_bets_placed
    /\ IF account.total_bets_won + account.total_bets_lost = 0
       THEN snap.win_rate = <<0, 1>>
       ELSE snap.win_rate = <<account.total_bets_won * 100,
                              account.total_bets_won + account.total_bets_lost>>

C10_OneSnapshotPerOperation ==
    /\ Len(before.snapshots) <= Len(snapshots)
    /\ SubSeq(snapshots, 1, Len(before.snapshots)) = before.snapshots
    /\ Succeeded => /\ Len(snapshots) = Len(before.snapshots) + 1
                    /\ SnapshotHoldsAccount(Last(snapshots))
    /\ (last_call.op \notin {"none", "PaperTradingManager", "reset_account"}
           /\ ~Succeeded) => snapshots = before.snapshots

\* the snapshot of a won bet follows those of account creation, of a reset
\* and of the placement
C10_Witness ==
    /\ Succeeded
    /\ resets > 0
    /\ Len(snapshots) >= 4
    /\ Last(snapshots).win_rate = <<100, 1>>
    /\ Last(snapshots).total_profit > 0

(***************************************************************************)
(* Persistence failures.  Each ledger operation commits its bet row and    *)
(* its account row in one transaction inside a try block: when anything up *)
(* to that commit raises, the except branch rolls back and the call        *)
(* returns its failure value.  _create_snapshot then commits the snapshot  *)
(* in a transaction of its own and swallows what that raises.  fail names  *)
(* the step that raises: none, the operation's commit, or the snapshot's.  *)
(***************************************************************************)
Failures == {"none", "commit", "snapshot"}

\* what is stored of outcome r of an operation when step fail raises;
\* an operation that returns before it writes has nothing that can fail
Persisted(r, failed_ret, fail) ==
    IF fail = "none" \/ r.snapshots = snapshots THEN r
    ELSE IF fail = "commit" THEN Rejected(failed_ret)
    ELSE [r EXCEPT !.snapshots = snapshots]

PlaceSingleBetFailing ==
    /\ Idle
    /\ Len(single_bets) + Len(parlay_bets) < MaxAppBets
    /\ \E a \in AppSingleArgs, fail \in Failures :
          Commit("place_single_bet", SingleInput(a),
                 Persisted(place_single_bet(SingleInput(a)), None, fail))
    /\ UNCHANGED <<sessions, game_stats, today, resolvable, batch, resets>>

PlaceParlayBetFailing ==
    /\ Idle
    /\ Len(single_bets) + Len(parlay_bets) < MaxAppBets
    /\ \E a \in AppParlayArgs, fail \in Failures :
          Commit("place_parlay_bet", a, Persisted(place_parlay_bet(a), None, fail))
    /\ UNCHANGED <<sessions, game_stats, today, resolvable, batch, resets>>

\* the failing calls are made on bets that exist
ResolveSingleBetFailing ==
    /\ Idle
    /\ \E bet_id \in DOMAIN single_bets, actual_result \in Actuals, fail \in Failures :
          LET r == Persisted(resolve_single_bet(bet_id, actual_result), None, fail)
          IN  Commit("resolve_single_bet",
                     IF r.ret = None THEN [bet_id |-> bet_id]
                     ELSE [bet_id |-> bet_id, actual_result |-> actual_result],
                     r)
    /\ UNCHANGED <<sessions, game_stats, today, resolvable, batch, resets>>

ResolveParlayBetFailing ==
    /\ Idle
    /\ \E parlay_id \in DOMAIN parlay_bets, fail \in Failures :
          \E leg_results \in LegResults(parlay_id) :
             LET r == Persisted(resolve_parlay_bet(parlay_id, leg_results), None, fail)
             IN  Commit("resolve_parlay_bet",
                        IF r.ret = None THEN [bet_id |-> parlay_id]
                        ELSE [bet_id |-> parlay_id, leg_results |-> leg_results],
                        r)
    /\ UNCHANGED <<sessions, game_stats, today, resolvable, batch, resets>>

VoidBetFailing ==
    /\ Idle
    /\ \E bet_type \in {"single", "parlay"}, fail \in Failures :
          \E bet_id \in DOMAIN (IF bet_type = "single" THEN single_bets
                                ELSE parlay_bets) :
             Commit("void_bet", [bet_id |-> bet_id, bet_type |-> bet_type],
                    Persisted(void_bet(bet_id, bet_type), FALSE, fail))
    /\ UNCHANGED <<sessions, game_stats, today, resolvable, batch, resets>>

\* resolve_all_pending up to its loop.  check_resolvable_bets runs its
\* queries outside every try block: when the matching of a pending item
\* raises, resolve_all_pending raises and no item is attempted.
SomePending ==
    \/ \E i \in DOMAIN single_bets : single_bets[i].status = "pending"
    \/ \E i \in DOMAIN parlay_bets : parlay_bets[i].status = "pending"

ResolveAllBeginFailing ==
    /\ Idle
    /\ \E raises \in BOOLEAN :
          IF raises /\ SomePending
          THEN /\ resolvable' = <<>>
               /\ batch' = [active |-> FALSE, num_resolved |-> 0, num_failed |-> 0,
                            attempted |-> 0, raised |-> TRUE]
          ELSE /\ resolvable' = check_resolvable_bets
               /\ batch' = [active |-> TRUE, num_resolved |-> 0, num_failed |-> 0,
                            attempted |-> 0, raised |-> FALSE]
    /\ UNCHANGED <<sessions, accounts, single_bets, parlay_bets, snapshots, game_stats, today,
                   resets, last_call, before>>

\* the bet of outcome r was voided for a game not played: by void_bet, whose
\* return value the resolver does not look at
VoidedUnplayed(r, item) ==
    IF item.type = "single"
    THEN r.single_bets[item.id].status = "void"
            /\ r.single_bets[item.id].actual_result = None
    ELSE r.parlay_bets[item.id].status = "void"
            /\ \A k \in DOMAIN r.parlay_bets[item.id].legs :
                  r.parlay_bets[item.id].legs[k].actual_result = None

\* outcome r of auto_resolve_single_bet or auto_resolve_parlay_bet when a
\* query of the resolver ("query") or a step of the manager raises: both
\* calls catch what is raised and return False
AutoPersisted(r, item, fail) ==
    IF fail = "none" \/ r.snapshots = snapshots THEN r
    ELSE IF fail = "query" THEN Rejected(FALSE)
    ELSE IF fail = "commit" THEN Rejected(VoidedUnplayed(r, item))
    ELSE [r EXCEPT !.snapshots = snapshots]

ResolveAllStepFailing ==
    /\ batch.active
    /\ resolvable # <<>>
    /\ \E fail \in Failures \cup {"query"} :
          LET item == Head(resolvable)
              r    == AutoPersisted(
                         IF item.type = "single" THEN auto_resolve_single_bet(item.id)
                         ELSE auto_resolve_parlay_bet(item.id),
                         item, fail)
          IN  /\ Commit(IF item.type = "single" THEN "auto_resolve_single_bet"
                         ELSE "auto_resolve_parlay_bet",
                         [bet_id |-> item.id], r)
              /\ batch' = [batch EXCEPT
                              !.num_resolved = IF r.ret THEN @ + 1 ELSE @,
                              !.num_failed = IF r.ret THEN @ ELSE @ + 1,
                              !.attempted = @ + 1]
    /\ resolvable' = Tail(resolvable)
    /\ UNCHANGED <<sessions, game_stats, today, resets>>

NextFail ==
    \/ NewManager
    \/ PlaceSingleBetFailing
    \/ PlaceParlayBetFailing
    \/ ResolveSingleBetFailing
    \/ ResolveParlayBetFailing
    \/ VoidBetFailing
    \/ StoreGameStats
    \/ ResolveAllBeginFailing
    \/ ResolveAllStepFailing
    \/ ResolveAllEnd
    \/ Tick

SpecFail == Init /\ [][NextFail]_vars

(***************************************************************************)
(* C11.  Every ledger operation is atomic, also when a persistence step    *)
(* fails: whenever a call has debited or credited the bankroll, the bet    *)
(* row it created or moved is stored and exactly one snapshot with the     *)
(* values after the call has been appended.  Under SpecFail.               *)
(***************************************************************************)
BankrollMoved ==
    /\ before.accounts # <<>>
    /\ account.current_bankroll # AccountBefore.current_bankroll

C11_LedgerChangesAreAtomic ==
    BankrollMoved =>
        /\ single_bets # before.single_bets \/ parlay_bets # before.parlay_bets
        /\ Len(snapshots) = Len(before.snapshots) + 1
        /\ SnapshotHoldsAccount(Last(snapshots))

(***************************************************************************)
(* The calls of the resolver's batch.  While the batch runs no game is     *)
(* stored and no day passes, so the record a call matched is the one the   *)
(* tables of the state give.                                               *)
(***************************************************************************)
AutoCalled(op) == batch.active /\ batch.attempted > 0 /\ Called(op)

AutoSingleOnPending ==
    /\ AutoCalled("auto_resolve_single_bet")
    /\ SingleTarget.status = "pending"

AutoParlayOnPending ==
    /\ AutoCalled("auto_resolve_parlay_bet")
    /\ ParlayTarget.status = "pending"

\* the matched record of a bet or leg row says the player did not play
MatchedDNP(found) ==
    /\ found # None
    /\ Value(found).minutes = Some(0) \/ Value(found).minutes = None

\* the matched record of a leg holds a realized value for the leg
MatchedValue(found) ==
    /\ found # None
    /\ Value(found).minutes # Some(0) /\ Value(found).minutes # None
    /\ Value(found).points # None

LegMatch(k) == find_matching_game_stats_for_leg(ParlayTarget.legs[k])

ParlayVoidedAndRefunded ==
    /\ last_call.ret = TRUE
    /\ ParlayResolvedRow.status = "void"
    /\ ParlayResolvedRow.profit_loss = 0
    /\ account.current_bankroll = AccountBefore.current_bankroll + ParlayTarget.stake
    /\ OnlyCounter("total_bets_void")

SingleVoidedUncompared ==
    /\ last_call.ret = TRUE
    /\ SingleResolvedRow.status = "void"
    /\ SingleResolvedRow.profit_loss = 0
    /\ SingleResolvedRow.actual_result = None
    /\ account.current_bankroll = AccountBefore.current_bankroll + SingleTarget.stake
    /\ OnlyCounter("total_bets_void")

(***************************************************************************)
(* C12 as stated: auto-resolving a pending single bet whose matched record *)
(* has minutes 0 or null voids it, refunds the stake and compares nothing; *)
(* auto-resolving a pending parlay one of whose legs has a matched record  *)
(* with minutes 0 or null voids the parlay and refunds its stake.          *)
(***************************************************************************)
C12_AnyDNPLegVoids ==
    /\ (AutoSingleOnPending /\ MatchedDNP(find_matching_game_stats(SingleTarget)))
          => SingleVoidedUncompared
    /\ (AutoParlayOnPending
           /\ \E k \in DOMAIN ParlayTarget.legs : MatchedDNP(LegMatch(k)))
          => ParlayVoidedAndRefunded

(***************************************************************************)
(* C12, amended: the single bet as stated; a pending parlay is voided and  *)
(* refunded when, in the order of its legs, a leg whose matched record has *)
(* minutes 0 or null comes before every leg that has no matched record or  *)
(* whose record of a game played lacks the leg's stat.  When such a leg    *)
(* comes first the call fails and nothing changes.                         *)
(***************************************************************************)
FirstDNPLeg(k) ==
    /\ MatchedDNP(LegMatch(k))
    /\ \A j \in 1..(k - 1) : MatchedValue(LegMatch(j))

FirstUnusableLeg(k) ==
    /\ ~MatchedDNP(LegMatch(k)) /\ ~MatchedValue(LegMatch(k))
    /\ \A j \in 1..(k - 1) : MatchedValue(LegMatch(j))

C12_FirstDNPLegVoids ==
    /\ (AutoSingleOnPending /\ MatchedDNP(find_matching_game_stats(SingleTarget)))
          => SingleVoidedUncompared
    /\ (AutoParlayOnPending /\ \E k \in DOMAIN ParlayTarget.legs : FirstDNPLeg(k))
          => ParlayVoidedAndRefunded
    /\ (AutoParlayOnPending /\ \E k \in DOMAIN ParlayTarget.legs : FirstUnusableLeg(k))
          => last_call.ret = FALSE /\ Ledger = before

\* a parlay was voided because its second leg's player has null minutes,
\* its first leg having a winning value
C12_Witness ==
    /\ AutoParlayOnPending
    /\ Len(ParlayTarget.legs) = 2
    /\ MatchedValue(LegMatch(1))
    /\ LegMatch(2) # None /\ Value(LegMatch(2)).minutes = None
    /\ ParlayResolvedRow.status = "void"

(***************************************************************************)
(* C13.  The record matched to a pending bet or leg is, among the records  *)
(* of its player (of the stored opponent when one is stored), the one      *)
(* dated as the stored game_date when one is stored, else the earliest     *)
(* dated on or after the placement; without such a record the bet, or the  *)
(* parlay of the leg, is not listed by the batch, is not attempted and     *)
(* stays pending.  Under SpecApp.                                          *)
(***************************************************************************)
RecordsFor(row) ==
    {g \in game_stats :
        /\ g.player_id = row.player_id
        /\ row.opponent = None \/ Some(g.opponent) = row.opponent}

ClaimedRecords(row, placed_at) ==
    IF row.game_date # None
    THEN {g \in RecordsFor(row) : Some(g.game_date) = row.game_date}
    ELSE {g \in RecordsFor(row) :
            /\ g.game_date >= placed_at
            /\ \A h \in RecordsFor(row) :
                  h.game_date >= placed_at => g.game_date <= h.game_date}

IsClaimedRecord(found, row, placed_at) ==
    IF ClaimedRecords(row, placed_at) = {} THEN found = None
    ELSE found # None /\ ClaimedRecords(row, placed_at) = {Value(found)}

SingleHasRecord(i) == ClaimedRecords(single_bets[i], single_bets[i].placed_at) # {}

ParlayHasRecords(i) ==
    \A k \in DOMAIN parlay_bets[i].legs :
        ClaimedRecords(parlay_bets[i].legs[k], parlay_bets[i].placed_at) # {}

Listed(i, type) ==
    \E n \in DOMAIN resolvable : resolvable[n] = [id |-> i, type |-> type]

C14_BatchIsolatesFailures ==
    /\ ~batch.raised
    /\ batch.num_resolved + batch.num_failed = batch.attempted
    /\ ~batch.active => resolvable = <<>>

(***************************************************************************)
(* NBADataCollector.fetch_player_game_stats.  The game log the NBA API     *)
(* returns holds the games a player has played so far, most recent first;  *)
(* max_games keeps its first max_games rows.  The kept games are walked    *)
(* oldest first, prev_game_date starting at None: a row that exists gets   *)
(* its days_rest and is_back_to_back overwritten, a new one is stored.     *)
(***************************************************************************)
MaxSeasonDay == 5   \* last day of the season the collector sees

\* the days on which a player has a game
SeasonDates(player_id) == IF player_id = 1 THEN {1, 2, 4, 5} ELSE {2, 3, 5}

GameLog(player_id) == {d \in SeasonDates(player_id) : d <= today}

\* games_df.head(max_games) of a log that is most recent first
MostRecent(dates, max_games) ==
    IF max_games = None THEN dates
    ELSE {d \in dates : Cardinality({e \in dates : e > d}) < Value(max_games)}

\* games_df.sort_values('GAME_DATE', ascending=True)
RECURSIVE SortedDates(_)
SortedDates(dates) ==
    IF dates = {} THEN <<>>
    ELSE LET first == CHOOSE d \in dates : \A e \in dates : d <= e
         IN  <<first>> \o SortedDates(dates \ {first})

IngestRow(player_id, game_date, days_rest, is_back_to_back) ==
    [player_id |-> player_id, game_date |-> game_date, opponent |-> "BOS",
     minutes |-> Some(30), points |-> Some(1),
     days_rest |-> days_rest, is_back_to_back |-> is_back_to_back]

RECURSIVE IngestFrom(_, _, _, _, _)
IngestFrom(rows, player_id, games, i, prev_game_date) ==
    IF i > Len(games) THEN rows
    ELSE LET game_date == games[i]
             days_rest == IF prev_game_date # None
                          THEN Some(game_date - Value(prev_game_date) - 1)
                          ELSE None
             is_back_to_back == (prev_game_date # None /\ days_rest = Some(0))
             existing == {g \in rows : g.player_id = player_id
                                        /\ g.game_date = game_date}
             updated == {IF g \in existing
                         THEN [g EXCEPT !.days_rest = days_rest,
                                        !.is_back_to_back = is_back_to_back]
                         ELSE g : g \in rows}
         IN  IngestFrom(IF existing # {} THEN updated
                        ELSE rows \cup {IngestRow(player_id, game_date, days_rest,
                                                  is_back_to_back)},
                        player_id, games, i + 1, Some(game_date))

fetch_player_game_stats(player_name, max_games) ==
    IF player_name \notin PlayerNames THEN game_stats
    ELSE IngestFrom(game_stats, PlayerIdOf(player_name),
                    SortedDates(MostRecent(GameLog(PlayerIdOf(player_name)), max_games)),
                    1, None)

\* update_all_players and the app call it with max_games; None fetches all
MaxGamesArgs == {None, Some(1), Some(2)}

FetchPlayerGameStats ==
    /\ \E player_name \in PlayerNames \cup {UnknownName}, max_games \in MaxGamesArgs :
          game_stats' = fetch_player_game_stats(player_name, max_games)
    /\ UNCHANGED <<sessions, accounts, single_bets, parlay_bets, snapshots, today, resolvable,
                   batch, resets, last_call, before>>

NextDay ==
    /\ today < MaxSeasonDay
    /\ today' = today + 1
    /\ UNCHANGED <<sessions, accounts, single_bets, parlay_bets, snapshots, game_stats,
                   resolvable, batch, resets, last_call, before>>

NextIngest ==
    \/ FetchPlayerGameStats
    \/ NextDay

SpecIngest == Init /\ [][NextIngest]_vars

(***************************************************************************)
(* C15.  After any sequence of ingestions, for the stored games of each    *)
(* player in date order: days_rest of a game that has a stored predecessor *)
(* is the number of days between the two minus 1, days_rest is null only   *)
(* for the player's first stored game, and is_back_to_back holds exactly   *)
(* when days_rest is 0.  Under SpecIngest.                                 *)
(***************************************************************************)
StoredBefore(g) ==
    {h \in game_stats : h.player_id = g.player_id /\ h.game_date < g.game_date}

Predecessor(g) ==
    CHOOSE h \in StoredBefore(g) : \A k \in StoredBefore(g) : k.game_date <= h.game_date

C15_DaysRestOfStoredGames ==
    \A g \in game_stats :
        /\ StoredBefore(g) # {}
              => g.days_rest = Some(g.game_date - Predecessor(g).game_date - 1)
        /\ g.days_rest = None => StoredBefore(g) = {}
        /\ g.is_back_to_back <=> g.days_rest = Some(0)

(***************************************************************************)
(* SimplePredictor.  Predictions and lines are counted in tenths of a stat *)
(* unit, so that the rest adjustments are whole numbers.                   *)
(***************************************************************************)
\* REST_ADJUSTMENTS, in tenths
REST_ADJUSTMENTS == (0 :> -15) @@ (1 :> -4) @@ (2 :> 11) @@ (3 :> 5) @@ (4 :> 0)

Min(a, b) == IF a <= b THEN a ELSE b

\* REST_ADJUSTMENTS.get(capped_rest, 0.0)
RestAdjustmentOf(capped_rest) ==
    IF capped_rest \in DOMAIN REST_ADJUSTMENTS THEN REST_ADJUSTMENTS[capped_rest] ELSE 0

\* seeded fault for C16: the cap is at 3 days
apply_rest_adjustment_capped_at_3(base_prediction, days_rest) ==
    IF base_prediction = None THEN None
    ELSE IF days_rest = None THEN base_prediction
    ELSE Some(Value(base_prediction) + RestAdjustmentOf(Min(Value(days_rest), 3)))

apply_rest_adjustment(base_prediction, days_rest) ==
    IF base_prediction = None THEN None
    ELSE IF days_rest = None THEN base_prediction
    ELSE Some(Value(base_prediction) + RestAdjustmentOf(Min(Value(days_rest), 4)))

\* longest rest tried
MaxDaysRest == 6

BasePredictions == {None} \cup {Some(x) : x \in {0, 15, 100, 255}}

DaysRestArgs == {None} \cup {Some(d) : d \in 0..MaxDaysRest}

\* every other variable stays as Init left it: these calls touch no table
ModelCall(op, args, ret) ==
    /\ last_call' = Call(op, args, ret)
    /\ UNCHANGED <<sessions, accounts, single_bets, parlay_bets, snapshots, game_stats, today,
                   resolvable, batch, resets, before>>

ApplyRestAdjustment ==
    \E base_prediction \in BasePredictions, days_rest \in DaysRestArgs :
        ModelCall("apply_rest_adjustment",
                  [days_rest |-> days_rest, base_prediction |-> base_prediction],
                  apply_rest_adjustment(base_prediction, days_rest))

(***************************************************************************)
(* C16.  apply_rest_adjustment(x, d) for a known d >= 0 is x plus the      *)
(* table value of min(d, 4), the table being 0: -1.5, 1: -0.4, 2: +1.1,    *)
(* 3: +0.5, 4: 0.0; so every d >= 4 gives what d = 4 gives; an unknown d   *)
(* gives x.  Under SpecModel.                                              *)
(***************************************************************************)
RestCalled ==
    /\ Called("apply_rest_adjustment")
    /\ last_call.args.base_prediction # None

C16_RestAdjustment ==
    RestCalled =>
        LET x == Value(last_call.args.base_prediction)
            d == last_call.args.days_rest
        IN  /\ d = None => last_call.ret = Some(x)
            /\ d = Some(0) => last_call.ret = Some(x - 15)
            /\ d = Some(1) => last_call.ret = Some(x - 4)
            /\ d = Some(2) => last_call.ret = Some(x + 11)
            /\ d = Some(3) => last_call.ret = Some(x + 5)
            /\ (d # None /\ Value(d) >= 4)
                  => /\ last_call.ret = Some(x)
                     /\ last_call.ret = apply_rest_adjustment(Some(x), Some(4))

\* five days of rest adjust as four do
C16_Witness ==
    /\ RestCalled
    /\ last_call.args.days_rest = Some(5)
    /\ last_call.args.base_prediction = Some(255)
    /\ last_call.ret = Some(255)

(***************************************************************************)
(* evaluate_against_line.  A float is <<v>> or NaN.  Probabilities are in  *)
(* thousandths, expected values in millionths, z in halves of a standard   *)
(* deviation.                                                              *)
(***************************************************************************)
NaN == <<>>

\* the standard normal distribution function at z halves, in thousandths
StandardNormalCdf ==
    (-4 :> 23) @@ (-3 :> 67) @@ (-2 :> 159) @@ (-1 :> 309) @@ (0 :> 500)
    @@ (1 :> 691) @@ (2 :> 841) @@ (3 :> 933) @@ (4 :> 977)

\* (x - loc) / scale in halves; the inputs make the quotient exact
Halves(x, loc, scale) == (2 * (x - loc)) \div scale

\* scipy.stats.norm.cdf(x, loc, scale): nan unless scale > 0
norm_cdf(x, loc, scale) ==
    IF scale > 0 THEN <<StandardNormalCdf[Halves(x, loc, scale)]>> ELSE NaN

\* 1 - p
Complement(p) == IF p = NaN THEN NaN ELSE <<1000 - Value(p)>>

\* seeded fault for C17: the losing side is not charged
ExpectedValueWithoutLoss(p_win, p_lose) ==
    IF p_win = NaN \/ p_lose = NaN THEN NaN
    ELSE <<Value(p_win) * 909>>

\* p_win * 0.909 - p_lose * 1.0
ExpectedValueAtOdds(p_win, p_lose) ==
    IF p_win = NaN \/ p_lose = NaN THEN NaN
    ELSE <<Value(p_win) * 909 - Value(p_lose) * 1000>>

\* v > 0; every comparison with nan is false
Positive(v) == v # NaN /\ Value(v) > 0

Abs(z) == IF z < 0 THEN -z ELSE z

evaluate_against_line(prediction, std_dev, line) ==
    IF prediction = None \/ std_dev = None THEN None
    ELSE
        LET mu         == Value(prediction)
            sd         == Value(std_dev)
            z_score    == IF sd > 0 THEN Halves(mu, line, sd) ELSE 0
            prob_over  == Complement(norm_cdf(line, mu, sd))
            prob_under == norm_cdf(line, mu, sd)
            ev_over    == ExpectedValueAtOdds(prob_over, prob_under)
            ev_under   == ExpectedValueAtOdds(prob_under, prob_over)
        IN  Some([line           |-> line,
                  prediction     |-> mu,
                  std_dev        |-> sd,
                  z_score        |-> z_score,
                  prob_over      |-> prob_over,
                  prob_under     |-> prob_under,
                  ev_over        |-> ev_over,
                  ev_under       |-> ev_under,
                  recommendation |-> IF Positive(ev_over) THEN "OVER"
                                     ELSE IF Positive(ev_under) THEN "UNDER"
                                     ELSE "SKIP",
                  confidence     |-> Abs(z_score)])

Predictions == {None} \cup {Some(x) : x \in {100, 110, 120}}

Lines == {100, 110, 120}

StdDevs == {None} \cup {Some(x) : x \in {0, 10, 20}}

EvaluateAgainstLine ==
    \E prediction \in Predictions, std_dev \in StdDevs, line \in Lines :
        ModelCall("evaluate_against_line",
                  [line |-> line, prediction |-> prediction, std_dev |-> std_dev],
                  evaluate_against_line(prediction, std_dev, line))

Evaluated ==
    /\ Called("evaluate_against_line")
    /\ last_call.ret # None

Evaluation == Value(last_call.ret)

(***************************************************************************)
(* C17.  evaluate_against_line returns ev_over = prob_over*0.909 -         *)
(* prob_under and ev_under = prob_under*0.909 - prob_over, recommends OVER *)
(* if ev_over > 0, else UNDER if ev_under > 0, else SKIP, and gives        *)
(* confidence |z|; at most one of the two expected values is positive, so  *)
(* the recommendation is the one direction of positive expected value      *)
(* when there is one.  Under SpecModel.                                    *)
(***************************************************************************)
C17_Recommendation ==
    Evaluated =>
        LET e == Evaluation
        IN  /\ (e.prob_over # NaN /\ e.prob_under # NaN)
                  => /\ e.ev_over = <<Value(e.prob_over) * 909 - Value(e.prob_under) * 1000>>
                     /\ e.ev_under = <<Value(e.prob_under) * 909 - Value(e.prob_over) * 1000>>
            /\ (e.prob_over = NaN \/ e.prob_under = NaN)
                  => e.ev_over = NaN /\ e.ev_under = NaN
            /\ ~(Positive(e.ev_over) /\ Positive(e.ev_under))
            /\ e.recommendation = "OVER" <=> Positive(e.ev_over)
            /\ e.recommendation = "UNDER" <=> Positive(e.ev_under)
            /\ e.recommendation = "SKIP" <=> ~Positive(e.ev_over) /\ ~Positive(e.ev_under)
            /\ e.confidence = Abs(e.z_score)
            /\ e.confidence >= 0

\* a prediction one standard deviation under the line: UNDER, confidence 1
C17_Witness ==
    /\ Evaluated
    /\ Evaluation.z_score = -2
    /\ Evaluation.recommendation = "UNDER"
    /\ Evaluation.confidence = 2
    /\ Positive(Evaluation.ev_under)
    /\ ~Positive(Evaluation.ev_over)

(***************************************************************************)
(* C18.  Whenever evaluate_against_line returns z_score 0, it returns      *)
(* prob_over = prob_under = 0.5; std_dev = 0 is such a case for every      *)
(* prediction and line.  Under SpecModel.                                  *)
(***************************************************************************)
C18_ZeroZMeansEvenOdds ==
    (Evaluated /\ Evaluation.z_score = 0)
        => Evaluation.prob_over = <<500>> /\ Evaluation.prob_under = <<500>>

(***************************************************************************)
(* MultiPickAnalyzer.  A Pick's probability is None, <<NaN>> or <<<<v>>>>  *)
(* with v in thousandths.  The probability of a parlay is in millionths,   *)
(* its expected value in millionths of a dollar, its ROI in millionths of  *)
(* a percent.  opponent_map and rest_map are left at their defaults.       *)
(* Records list their fields in their normal order.                       *)
(***************************************************************************)
\* most picks of one parlay
MaxPicks == 2

\* Pick(player_name, stat_type, line, direction)
Pick(player_name, line, direction) ==
    [probability |-> None, player_name |-> player_name, line |-> line,
     direction |-> direction, prediction |-> None]

\* Parlay(picks, payout_multiplier, stake)
Parlay(picks, payout_multiplier, stake) ==
    [stake |-> stake, expected_value |-> None, payout_multiplier |-> payout_multiplier,
     parlay_probability |-> None, recommendation |-> None, picks |-> picks,
     roi |-> None]

\* what predict_weighted_average returns for the player of a pick
Estimates ==
    {None} \cup {Some([prediction |-> x, std_dev |-> sd]) : x \in {100, 120}, sd \in {0, 20}}

evaluate_pick(pick, estimate) ==
    IF estimate = None THEN pick
    ELSE
        LET prediction == Value(estimate).prediction
            std_dev    == Value(estimate).std_dev
            probability ==
                IF pick.direction = "OVER"
                THEN Complement(norm_cdf(pick.line, prediction, std_dev))
                ELSE norm_cdf(pick.line, prediction, std_dev)
        IN  [probability |-> Some(probability), player_name |-> pick.player_name,
             line |-> pick.line, direction |-> pick.direction,
             prediction |-> Some(prediction)]

\* np.prod of the probabilities, in thousandths to the power of their number
RECURSIVE Prod(_)
Prod(pick_probabilities) ==
    IF pick_probabilities = <<>> THEN <<1>>
    ELSE LET rest == Prod(Tail(pick_probabilities))
         IN  IF Head(pick_probabilities) = NaN \/ rest = NaN THEN NaN
             ELSE <<Value(Head(pick_probabilities)) * Value(rest)>>

RECURSIVE Thousands(_)
Thousands(n) == IF n = 0 THEN 1 ELSE 1000 * Thousands(n - 1)

\* probability 1 in the unit of a parlay's probability: a millionth for two picks
One == Thousands(MaxPicks)

\* the product brought to that unit
InMillionths(product, n) ==
    IF product = NaN THEN NaN
    ELSE <<Value(product) * Thousands(MaxPicks - n)>>

\* n / d rounded to the nearest integer, ties to even; d > 0
RoundDiv(n, d) ==
    LET q == n \div d
        r == n % d
    IN  IF 2 * r < d THEN q
        ELSE IF 2 * r > d THEN q + 1
        ELSE IF q % 2 = 0 THEN q ELSE q + 1

\* quarter_kelly: a fraction num/den of the bankroll, num in millionths
QuarterKelly(parlay_probability, payout_multiplier) ==
    IF payout_multiplier > 1
    THEN IF parlay_probability = NaN THEN NaN
         ELSE <<[num |-> Value(parlay_probability) * payout_multiplier - One,
                 den |-> 4 * (payout_multiplier - 1)]>>
    ELSE <<[num |-> 0, den |-> 1]>>

\* f"{quarter_kelly*100:.1f}": tenths of a percent
PercentTenths(quarter_kelly) ==
    IF quarter_kelly = NaN THEN NaN
    ELSE <<RoundDiv(Value(quarter_kelly).num, Value(quarter_kelly).den * (One \div 1000))>>

InsufficientData == [quarter_kelly |-> None, text |-> "SKIP - Insufficient data"]

analyze_parlay(parlay, estimates) ==
    LET evaluated_picks ==
            [i \in 1..Len(parlay.picks) |-> evaluate_pick(parlay.picks[i], estimates[i])]
        with_probability == SelectSeq(evaluated_picks, LAMBDA p : p.probability # None)
        pick_probabilities ==
            [i \in 1..Len(with_probability) |-> Value(with_probability[i].probability)]
    IN  IF Len(pick_probabilities) # Len(evaluated_picks)
        THEN [parlay  |-> [stake              |-> parlay.stake,
                           expected_value     |-> parlay.expected_value,
                           payout_multiplier  |-> parlay.payout_multiplier,
                           parlay_probability |-> parlay.parlay_probability,
                           recommendation     |-> Some(InsufficientData),
                           picks              |-> evaluated_picks,
                           roi                |-> parlay.roi],
              printed |-> None]
        ELSE
            LET parlay_probability ==
                    InMillionths(Prod(pick_probabilities), Len(pick_probabilities))
                expected_value ==
                    IF parlay_probability = NaN THEN NaN
                    ELSE <<Value(parlay_probability) * parlay.stake * parlay.payout_multiplier
                           - (One - Value(parlay_probability)) * parlay.stake>>
                roi ==
                    IF expected_value = NaN THEN NaN
                    ELSE <<(Value(expected_value) \div parlay.stake) * 100>>
                quarter_kelly == QuarterKelly(parlay_probability, parlay.payout_multiplier)
                recommendation ==
                    IF Positive(expected_value) /\ Value(parlay_probability) * 20 > One
                    THEN [quarter_kelly |-> Some(PercentTenths(quarter_kelly)), text |-> "BET"]
                    ELSE IF Positive(expected_value)
                    THEN [quarter_kelly |-> None,
                          text |-> "SKIP - Positive EV but probability too low"]
                    ELSE [quarter_kelly |-> None, text |-> "SKIP - Negative expected value"]
            IN  [parlay  |-> [stake              |-> parlay.stake,
                              expected_value     |-> Some(expected_value),
                              payout_multiplier  |-> parlay.payout_multiplier,
                              parlay_probability |-> Some(parlay_probability),
                              recommendation     |-> Some(recommendation),
                              picks              |-> evaluated_picks,
                              roi                |-> Some(roi)],
                 printed |-> Some(PercentTenths(quarter_kelly))]

PickLines == {110}

\* picks of distinct players, in the order of PlayerOrder
PlayerOrder == <<"P1", "P2", "P3">>

PickLists ==
    UNION {{[i \in 1..n |-> Pick(PlayerOrder[i], line, dir[i])] :
                line \in PickLines, dir \in [1..n -> Directions]} : n \in 0..MaxPicks}

PayoutMultipliers == {1, 3}

ParlayStakes == {2}

AnalyzeCall(parlay, estimates) ==
    ModelCall("analyze_parlay", [parlay |-> parlay, estimates |-> estimates],
              analyze_parlay(parlay, estimates))

\* a parlay built for this call
AnalyzeParlay ==
    \E picks \in PickLists, payout_multiplier \in PayoutMultipliers, stake \in ParlayStakes :
        \E estimates \in [1..Len(picks) -> Estimates] :
            AnalyzeCall(Parlay(picks, payout_multiplier, stake), estimates)

\* the parlay the previous call returned, analysed again
AnalyzeParlayAgain ==
    /\ Called("analyze_parlay")
    /\ \E estimates \in [1..Len(last_call.ret.parlay.picks) -> Estimates] :
            AnalyzeCall(last_call.ret.parlay, estimates)

NextModel ==
    \/ ApplyRestAdjustment
    \/ EvaluateAgainstLine
    \/ AnalyzeParlay
    \/ AnalyzeParlayAgain

SpecModel == Init /\ [][NextModel]_vars

AnalyzeCalled == Called("analyze_parlay")

\* the estimator had no data for pick i at the last call
NoDataFor(i) == last_call.args.estimates[i] = None

SomePickWithoutData ==
    \E i \in 1..Len(last_call.args.estimates) : NoDataFor(i)

(***************************************************************************)
(* C19.  When the estimator has no data for at least one pick of the       *)
(* parlay at a call of analyze_parlay, the recommendation is the           *)
(* insufficient-data SKIP and no joint probability, expected value or ROI  *)
(* is computed, whatever the pick and parlay fields held before the call.  *)
(* Under SpecModel.                                                        *)
(***************************************************************************)
C19_NoDataSkipsParlay ==
    (AnalyzeCalled /\ SomePickWithoutData) =>
        /\ last_call.ret.parlay.recommendation = Some(InsufficientData)
        /\ last_call.ret.printed = None
        /\ last_call.ret.parlay.parlay_probability = last_call.args.parlay.parlay_probability
        /\ last_call.ret.parlay.expected_value = last_call.args.parlay.expected_value
        /\ last_call.ret.parlay.roi = last_call.args.parlay.roi

\* the parlay's probability as the last call computed it, when it is a number
ComputedProbability ==
    /\ AnalyzeCalled
    /\ last_call.ret.printed # None
    /\ Value(last_call.ret.parlay.parlay_probability) # NaN

\* max(0, 0.25 * (p*b - 1)/(b - 1)) if b > 1, else 0, as tenths of a percent
NonNegativeQuarterKelly(p, b) ==
    IF b > 1
    THEN RoundDiv(IF p * b - One > 0 THEN p * b - One ELSE 0, 4 * (b - 1) * (One \div 1000))
    ELSE 0

(***************************************************************************)
(* C20.  The bet-size fraction analyze_parlay reports is                   *)
(* max(0, 0.25 * (p*b - 1)/(b - 1)) for a payout multiplier b > 1 and 0    *)
(* otherwise, p being the parlay probability: it is never negative, a BET  *)
(* recommendation included.  Under SpecModel.                              *)
(***************************************************************************)
C20_QuarterKellyNeverNegative ==
    ComputedProbability =>
        LET p == Value(Value(last_call.ret.parlay.parlay_probability))
            b == last_call.ret.parlay.payout_multiplier
            recommendation == Value(last_call.ret.parlay.recommendation)
            reported == <<NonNegativeQuarterKelly(p, b)>>
        IN  /\ last_call.ret.printed = Some(reported)
            /\ Value(Value(last_call.ret.printed)) >= 0
            /\ recommendation.text = "BET" => recommendation.quarter_kelly = Some(reported)

\* the estimator had data for every pick at the last call
FullyEvaluated == AnalyzeCalled /\ ~SomePickWithoutData

\* the probabilities of the picks as the last call left them
PickProbabilities ==
    [i \in 1..Len(last_call.ret.parlay.picks) |->
        Value(last_call.ret.parlay.picks[i].probability)]

\* v <= 0; every comparison with nan is false
NotPositive(v) == v # NaN /\ Value(v) <= 0

(***************************************************************************)
(* C21.  For a fully evaluated parlay analyze_parlay sets                  *)
(* parlay_probability to the product of the picks' probabilities and       *)
(* recommends BET iff expected_value > 0 and parlay_probability > 0.05,    *)
(* the low-probability SKIP iff expected_value > 0 and                     *)
(* parlay_probability <= 0.05, and the negative-EV SKIP iff                *)
(* expected_value <= 0; exactly one of the three applies.                  *)
(* Under SpecModel.                                                        *)
(***************************************************************************)
C21_RecommendationByExpectedValue ==
    FullyEvaluated =>
        LET p    == Value(last_call.ret.parlay.parlay_probability)
            ev   == Value(last_call.ret.parlay.expected_value)
            text == Value(last_call.ret.parlay.recommendation).text
            high == p # NaN /\ Value(p) * 20 > One
            low  == p # NaN /\ Value(p) * 20 <= One
        IN  /\ p = InMillionths(Prod(PickProbabilities), Len(PickProbabilities))
            /\ text = "BET" <=> Positive(ev) /\ high
            /\ text = "SKIP - Positive EV but probability too low" <=> Positive(ev) /\ low
            /\ text = "SKIP - Negative expected value" <=> NotPositive(ev)
            /\ text \in {"BET", "SKIP - Positive EV but probability too low",
                         "SKIP - Negative expected value"}

\* the placement passed the funds check
FundsSuffice ==
    /\ PlacementCall
    /\ last_call.args.stake <= AccountBefore.current_bankroll

C23_ParlayLegsMatchNumPicks ==
    \A i \in DOMAIN parlay_bets :
        /\ Len(parlay_bets[i].legs) >= 2
        /\ parlay_bets[i].num_picks = Len(parlay_bets[i].legs)

(***************************************************************************)
(* C24.  Constructing a PaperTradingManager for a user without an account  *)
(* creates exactly one account with starting_bankroll = current_bankroll   *)
(* = 1000 and all counters 0 and appends a snapshot recording bankroll     *)
(* 1000; constructing it again creates neither an account nor a snapshot.  *)
(* There is never more than one account.  Under SpecApp.                   *)
(***************************************************************************)
Constructed == Called("PaperTradingManager")

StillListed(rows) ==
    \E i \in DOMAIN rows : rows[i].status \in {"pending"} \cup Terminal

C25_ResetClearsHistory ==
    Called("reset_account") =>
        /\ account.starting_bankroll = Dollars(1000)
        /\ account.current_bankroll = Dollars(1000)
        /\ \A f \in Counters : account[f] = 0
        /\ ~StillListed(single_bets)
        /\ ~StillListed(parlay_bets)

(***************************************************************************)
(* C26.  Ledger conservation: on an account that is never reset, after any *)
(* sequence of successful and rejected place, resolve and void calls,      *)
(* current_bankroll = starting_bankroll - (the stakes of the pending bets  *)
(* and parlays) + (the profit_loss of the won, lost and void bets and      *)
(* parlays).  Under Spec, which has no reset.                              *)
(***************************************************************************)
RECURSIVE PendingStakes(_)
PendingStakes(rows) ==
    IF rows = <<>> THEN 0
    ELSE (IF Head(rows).status = "pending" THEN Head(rows).stake ELSE 0)
         + PendingStakes(Tail(rows))

RECURSIVE SettledProfit(_)
SettledProfit(rows) ==
    IF rows = <<>> THEN 0
    ELSE (IF Head(rows).status \in Terminal THEN Head(rows).profit_loss ELSE 0)
         + SettledProfit(Tail(rows))

C26_LedgerConservation ==
    accounts # <<>> =>
        account.current_bankroll
            = account.starting_bankroll
              - (PendingStakes(single_bets) + PendingStakes(parlay_bets))
              + (SettledProfit(single_bets) + SettledProfit(parlay_bets))

\* a won parlay next to a single bet that is still pending
C26_Witness ==
    /\ accounts # <<>>
    /\ \E i \in DOMAIN parlay_bets :
          parlay_bets[i].status = "won" /\ parlay_bets[i].profit_loss > 0
    /\ \E i \in DOMAIN single_bets : single_bets[i].status = "pending"
    /\ account.current_bankroll > account.starting_bankroll

(***************************************************************************)
(* C27.  Counter consistency: in every state reachable by place, resolve,  *)
(* void, auto-resolution and reset_account, total_bets_won +               *)
(* total_bets_lost + total_bets_void <= total_bets_placed, and the         *)
(* difference is the number of bets and parlays still pending.             *)
(* Under SpecApp.                                                          *)
(***************************************************************************)
PendingCount(rows) == Len(SelectSeq(rows, LAMBDA row : row.status = "pending"))

SettledCount ==
    account.total_bets_won + account.total_bets_lost + account.total_bets_void

C27_CountersMatchPending ==
    accounts # <<>> =>
        /\ SettledCount <= account.total_bets_placed
        /\ account.total_bets_placed - SettledCount
              = PendingCount(single_bets) + PendingCount(parlay_bets)

(***************************************************************************)
(* C28.  Once a parlay is won, lost or void, by resolve_parlay_bet, by a   *)
(* manual void_bet or by the automatic void of a leg that did not play,    *)
(* none of its legs is still pending, and when it is won every leg is won. *)
(* Under SpecApp.                                                          *)
(***************************************************************************)
LegStatuses(parlay) == {parlay.legs[k].status : k \in DOMAIN parlay.legs}

C28_TerminalParlayHasSettledLegs ==
    \A i \in DOMAIN parlay_bets :
        /\ parlay_bets[i].status \in Terminal => "pending" \notin LegStatuses(parlay_bets[i])
        /\ parlay_bets[i].status = "won" => LegStatuses(parlay_bets[i]) \subseteq {"won"}

\* the profit_loss resolve_parlay_bet records for a won parlay placed with
\* this stake and payout multiplier
WonParlayProfit(stake, payout_multiplier) ==
    LET placed == NewParlayBet([stake |-> stake, expected_value |-> 0,
                                picks_data |-> <<>>,
                                payout_multiplier |-> payout_multiplier,
                                parlay_probability |-> 0])
    IN  placed.potential_payout - placed.stake

(***************************************************************************)
(* C29.  The expected value analyze_parlay computes for a parlay, which is *)
(* stored with the placed bet, agrees with the ledger's payoffs: it is     *)
(* p * W - (1 - p) * stake, p being the parlay probability and W the       *)
(* profit_loss resolve_parlay_bet records when the parlay is won.          *)
(* Under SpecModel.                                                        *)
(***************************************************************************)
C29_ExpectedValueMatchesLedger ==
    ComputedProbability =>
        LET p     == Value(Value(last_call.ret.parlay.parlay_probability))
            stake == last_call.ret.parlay.stake
            W     == WonParlayProfit(stake, last_call.ret.parlay.payout_multiplier)
        IN  last_call.ret.parlay.expected_value = Some(<<p * W - (One - p) * stake>>)

(***************************************************************************)
(* SpecTwo: two PaperTradingManager instances for 'default_user', the one  *)
(* of render_paper_trading_mode and the one of its BetResolver.  Each has  *)
(* its own session (get_session makes an engine and a sessionmaker with    *)
(* the defaults: expire_on_commit) and its own PaperTradingAccount object, *)
(* self.account.  A session loads the row when an expired or new object is *)
(* read, keeps what it loaded until its own next commit, and on flush      *)
(* writes the columns whose value the call changed.  Calls do not overlap: *)
(* each runs to completion, by either manager.                             *)
(*                                                                         *)
(* sessions.stored is the paper_trading_account table of the database,     *)
(* sessions.loaded[m] the row self.account of manager m holds (None when   *)
(* expired), and accounts is self.account as the manager of the next call  *)
(* reads it.  Bet rows are read from the database by every call.           *)
(* sessions.serial is the account of one manager making the same           *)
(* successful calls in the same order: every assignment to the account is  *)
(* a += or -= of an amount taken from the bet.                             *)
(***************************************************************************)
Sessions(stored, loaded, serial) ==
    [stored |-> stored, loaded |-> loaded, serial |-> serial]

\* self.account of manager m as its next read finds it
AccountOf(m, s) ==
    IF s.stored = <<>> THEN <<>>
    ELSE IF s.loaded[m] = None THEN s.stored
    ELSE s.loaded[m]

\* the call with outcome r reached its session.commit(), as every call
\* followed by _create_snapshot has
Written(r) == Len(r.snapshots) > Len(snapshots)

\* the flush of the manager's session: UPDATE ... SET the changed columns
Flushed(row, r) ==
    LET Column(f) == IF r.account[f] # account[f] THEN r.account[f] ELSE row[f]
    IN  [starting_bankroll |-> Column("starting_bankroll"),
         current_bankroll  |-> Column("current_bankroll"),
         total_bets_placed |-> Column("total_bets_placed"),
         total_bets_won    |-> Column("total_bets_won"),
         total_bets_lost   |-> Column("total_bets_lost"),
         total_bets_void   |-> Column("total_bets_void")]

\* the same += and -= on the account of the single manager
Applied(row, r) ==
    LET Column(f) == row[f] + r.account[f] - account[f]
    IN  [starting_bankroll |-> Column("starting_bankroll"),
         current_bankroll  |-> Column("current_bankroll"),
         total_bets_placed |-> Column("total_bets_placed"),
         total_bets_won    |-> Column("total_bets_won"),
         total_bets_lost   |-> Column("total_bets_lost"),
         total_bets_void   |-> Column("total_bets_void")]

\* manager m ran op(args) to completion with outcome r; reads tells whether
\* a call that returns before its commit has read self.account
CommitBy(m, op, args, r, reads) ==
    /\ sessions.stored # <<>>
    /\ accounts = AccountOf(m, sessions)
    /\ LET row  == IF Written(r) THEN Flushed(sessions.stored[1], r)
                   ELSE sessions.stored[1]
           next == Sessions(<<row>>,
                            [sessions.loaded EXCEPT
                                ![m] = IF Written(r) THEN None
                                       ELSE IF reads THEN accounts ELSE @],
                            IF Written(r) THEN <<Applied(sessions.serial[1], r)>>
                            ELSE sessions.serial)
       IN  /\ sessions' = next
           /\ \E n \in Managers : accounts' = AccountOf(n, next)
           /\ snapshots' = IF Written(r) THEN create_snapshot(snapshots, row)
                           ELSE snapshots
    /\ single_bets' = r.single_bets
    /\ parlay_bets' = r.parlay_bets
    /\ last_call' = Call(op, args, r.ret)
    /\ before' = Ledger
    /\ UNCHANGED <<game_stats, today, resolvable, batch, resets>>

\* manager = PaperTradingManager(); resolver = BetResolver()
NewManagers ==
    /\ LET r    == get_or_create_account
           next == IF sessions.stored = <<>>
                   THEN Sessions(<<r.account>>,
                                 [m \in Managers |->
                                     IF m = "ui" THEN None ELSE <<r.account>>],
                                 <<r.account>>)
                   ELSE Sessions(sessions.stored,
                                 [m \in Managers |-> sessions.stored],
                                 sessions.serial)
       IN  /\ sessions' = next
           /\ \E n \in Managers : accounts' = AccountOf(n, next)
           /\ snapshots' = r.snapshots
    /\ last_call' = Call("PaperTradingManager", <<>>, None)
    /\ before' = Ledger
    /\ UNCHANGED <<single_bets, parlay_bets, game_stats, today, resolvable, batch,
                   resets>>

PlaceSingleBetBy(m) ==
    /\ Len(single_bets) + Len(parlay_bets) < MaxAppBets
    /\ \E a \in AppSingleArgs :
          CommitBy(m, "place_single_bet",
                   IF check_sufficient_funds(a.stake) THEN SingleInput(a)
                   ELSE [stake |-> a.stake],
                   place_single_bet(SingleInput(a)), TRUE)

PlaceParlayBetBy(m) ==
    /\ Len(single_bets) + Len(parlay_bets) < MaxAppBets
    /\ \E a \in AppParlayArgs :
          CommitBy(m, "place_parlay_bet",
                   IF check_sufficient_funds(a.stake) THEN a ELSE [stake |-> a.stake],
                   place_parlay_bet(a), TRUE)

ResolveSingleBetBy(m) ==
    \E bet_id \in BetIds, actual_result \in Actuals :
       LET r == resolve_single_bet(bet_id, actual_result)
       IN  CommitBy(m, "resolve_single_bet",
                    IF r.ret = None THEN [bet_id |-> bet_id]
                    ELSE [bet_id |-> bet_id, actual_result |-> actual_result],
                    r, FALSE)

ResolveParlayBetBy(m) ==
    \E parlay_id \in BetIds :
       \E leg_results \in LegResults(parlay_id) :
          LET r == resolve_parlay_bet(parlay_id, leg_results)
          IN  CommitBy(m, "resolve_parlay_bet",
                       IF r.ret = None THEN [bet_id |-> parlay_id]
                       ELSE [bet_id |-> parlay_id, leg_results |-> leg_results],
                       r, FALSE)

VoidBetBy(m) ==
    \E bet_id \in BetIds, bet_type \in {"single", "parlay"} :
       CommitBy(m, "void_bet", [bet_id |-> bet_id, bet_type |-> bet_type],
                void_bet(bet_id, bet_type), FALSE)

NextTwo ==
    \/ NewManagers
    \/ \E m \in Managers : PlaceSingleBetBy(m)
    \/ \E m \in Managers : PlaceParlayBetBy(m)
    \/ \E m \in Managers : ResolveSingleBetBy(m)
    \/ \E m \in Managers : ResolveParlayBetBy(m)
    \/ \E m \in Managers : VoidBetBy(m)

SpecTwo == Init /\ [][NextTwo]_vars

(***************************************************************************)
(* C30.  No balance update is lost across manager instances: whatever the  *)
(* interleaving of the place, resolve and void calls of two managers of    *)
(* the same user, each with its own session and its own loaded account,    *)
(* the bankroll and the counters in the database are those one manager     *)
(* making the same successful calls one after another arrives at.          *)
(* Under SpecTwo.                                                          *)
(***************************************************************************)
C30_NoLostUpdate ==
    sessions.stored # <<>> => sessions.stored = sessions.serial

====
